---- MODULE Spec2Model ----
(***************************************************************************)
(* Pipeline core of the speech-to-text orchestrator: construction of the   *)
(* PipelineEngine from a PipelineDefinition through a step loader, the     *)
(* sequential execution of its stages on a PipelineContext, and the        *)
(* websocket streaming driver (handle_socket / process_text_message) that  *)
(* drives the engine on Flush and Stop.                                    *)
(***************************************************************************)
EXTENDS Integers, Sequences, FiniteSets, TLC

VARIABLES
    loader,      \* which PipelineStepLoader builds the engine: "plugin" | "grpc" | "direct"
    config,      \* the part of AppConfig / build features the plugin factories read
    definition,  \* the selected PipelineDefinition [pre, transcription, post]
    build,       \* from_definition in progress: [status, next, stages, error]
    loadCalls,   \* step names load_step has been called with, in call order
    sessions,    \* the contexts' owners: websocket connections (or the one-shot request)
    alphabet,    \* the frames the client of this configuration sends
    inbox,       \* per session: frames sent by the client, not yet read by socket.next()
    peer,        \* per session: "up" | "gone" (transport usable or not)
    conn,        \* per session: "open" while handle_socket loops, "closed" once it returned
    context,     \* per session: None or the PipelineContext
    sent,        \* per session: the send_message calls so far, [msg, ok]
    run,         \* per session: position of the engine.run in flight, if any
    received,    \* per session: number of frames the driver has taken from the socket
    execLog,     \* per session: the stages entered by the current/last run, [idx, result]
    appended,    \* per session: the events the stages of the current/last run pushed
    activeRuns,  \* per session: engine.run calls in flight on the context
    inStage,     \* per session: stage.execute calls in flight on the context
    runNo,       \* per session: number of engine runs started
    request,     \* per session: the TranscribeAudioRequest of the one-shot command, if any
    response,    \* per session: what the one-shot command returned, if it has
    calc         \* the call of a signal-processing component in progress: inputs and outputs

vars == <<loader, config, definition, build, loadCalls, sessions, alphabet, inbox,
          peer, conn, context, sent, run, received, execLog, appended, activeRuns,
          inStage, runNo, request, response, calc>>

buildVars == <<loader, config, definition, build, loadCalls>>
\* what neither the engine nor the streaming driver touches
envVars == <<sessions, alphabet, request, response, calc>>

(***************************************************************************)
(* Bounds of the model.                                                    *)
(***************************************************************************)
MaxPre == 1
MaxPost == 1
MaxStageEvents == 1
MaxInbox == 2
MaxClientMsgs == 3
MaxConcMsgs == 5
NumSessions == 2

None == "None"

(***************************************************************************)
(* Errors.  DomainError is a kind plus a message (the parts of its text);   *)
(* Ok stands for Ok(()).                                                   *)
(***************************************************************************)
Ok == [kind |-> "Ok", msg |-> <<>>]
internal_error(m) == [kind |-> "Internal", msg |-> m]
external_service_error(svc, m) == [kind |-> "ExternalService", msg |-> <<svc, m>>]
Streaming(m) == [kind |-> "Streaming", msg |-> m]

(***************************************************************************)
(* Step names.                                                             *)
(***************************************************************************)
PluginNames == {"audio_clamp", "resample", "whisper_transcription", "wav2vec2_alignment"}
GrpcNames == {"audio_transform", "asr_transcribe", "alignment_enrich"}
\* "custom" is a stage registered by the embedding program (register_plugin,
\* PipelineEngine::new); "unknown_step" is registered nowhere.
StepNames(l) == (IF l = "grpc" THEN GrpcNames ELSE PluginNames \cup {"custom"})
                    \cup {"unknown_step"}

SeqsUpTo(S, n) == UNION {[1..k -> S] : k \in 0..n}

\* A transcript (or a word list) is identified by the stage execution that produced
\* it; Absent is Option::None for ctx.transcript and the empty Vec for aligned_words.
Absent == [run |-> 0, stage |-> 0]

\* A session id is the pair of its text and its length in characters, followed for a
\* generated id by what tells it apart from the others; NoId is Option::<String>::None.
NoId == <<>>
Id(text, len) == <<text, len>>
TextLen(id) == id[2]

\* session_id.unwrap_or_else(|| Uuid::new_v4().to_string()).  Its slip: the id the
\* client provided is dropped.
unwrap_or_else_always_fresh(given, fresh) == fresh
unwrap_or_else(given, fresh) == IF given = NoId THEN fresh ELSE given

\* Option<PipelineContext>::None, as handle_socket starts with
NoContext ==
    [present |-> FALSE, session_id |-> NoId, language_hint |-> NoId,
     sample_rate_hz |-> 0, samples |-> <<>>,
     transcript |-> Absent, aligned_words |-> Absent, events |-> <<>>]

\* PipelineContext::new
NewContext(sid, hint) ==
    [present |-> TRUE, session_id |-> sid, language_hint |-> hint,
     sample_rate_hz |-> 16000, samples |-> <<>>,
     transcript |-> Absent, aligned_words |-> Absent, events |-> <<>>]

\* PipelineDefinition::ordered_steps, with its plausible slip (post before transcription)
ordered_steps_swapped(def) == def.pre \o def.post \o <<def.transcription>>
ordered_steps(def) == def.pre \o <<def.transcription>> \o def.post

(***************************************************************************)
(* The loaders.                                                            *)
(***************************************************************************)
\* ResamplePlugin::build
ResamplePluginBuild_ignoring_flag(cfg) == Ok
ResamplePluginBuild(cfg) ==
    IF ~cfg.resample_enabled THEN [kind |-> "anyhow", msg |-> <<"resample step is disabled">>]
    ELSE Ok

\* Wav2Vec2AlignmentPlugin::build
Wav2Vec2PluginBuild(cfg) ==
    IF cfg.wav2vec2 = "load_fails"
    THEN [kind |-> "anyhow", msg |-> <<"wav2vec2 model loading failed">>]
    ELSE Ok

\* register_builtin_plugins (+ a plugin registered by the embedding program)
Plugins(cfg) ==
    {"audio_clamp", "resample", "custom"}
        \cup (IF cfg.whisper_runtime THEN {"whisper_transcription"} ELSE {})
        \cup (IF cfg.wav2vec2 # "absent" THEN {"wav2vec2_alignment"} ELSE {})

\* PipelineStepPlugin::build of the plugin registered under name
PluginBuild(name, cfg) ==
    CASE name = "resample" -> ResamplePluginBuild(cfg)
      [] name = "wav2vec2_alignment" -> Wav2Vec2PluginBuild(cfg)
      [] OTHER -> Ok

\* PipelinePluginLoader::load_step
PluginLoadStep(name, cfg) ==
    IF name \notin Plugins(cfg)
    THEN internal_error(<<"unknown pipeline step plugin", name>>)
    ELSE IF PluginBuild(name, cfg) # Ok
         THEN internal_error(<<"failed to build pipeline step", name>> \o PluginBuild(name, cfg).msg)
         ELSE Ok

\* GrpcPipelineStepLoader::load_step
GrpcLoadStep(name) ==
    IF name \in {"audio_transform", "asr_transcribe", "alignment_enrich"} THEN Ok
    ELSE internal_error(<<"unknown pipeline step", name>>)

\* PipelineStepLoader::load_step, dispatched on the loader
load_step(l, name, cfg) ==
    IF l = "grpc" THEN GrpcLoadStep(name) ELSE PluginLoadStep(name, cfg)

(***************************************************************************)
(* PipelineEngine::from_definition, one loop iteration per step.           *)
(***************************************************************************)
\* the ? on load_step: what the loop does with the result of one load
AfterLoad_ignoring_error(b, name, res, total) ==
    [status |-> IF b.next = total THEN "built" ELSE "loading",
     next |-> b.next + 1, stages |-> Append(b.stages, name), error |-> Ok]
AfterLoad(b, name, res, total) ==
    IF res # Ok
    THEN [status |-> "failed", next |-> b.next, stages |-> <<>>, error |-> res]
    ELSE [status |-> IF b.next = total THEN "built" ELSE "loading",
          next |-> b.next + 1, stages |-> Append(b.stages, name), error |-> Ok]

LoadStep ==
    /\ build.status = "loading"
    /\ LET steps == ordered_steps(definition)
           name == steps[build.next]
           res == load_step(loader, name, config)
       IN /\ loadCalls' = Append(loadCalls, name)
          /\ build' = AfterLoad(build, name, res, Len(steps))
    /\ UNCHANGED <<loader, config, definition, envVars, inbox, peer, conn, context, sent,
                   run, received, execLog, appended, activeRuns, inStage, runNo>>

(***************************************************************************)
(* The stages.  An outcome is what one execute call does to the context:   *)
(* result is Ok or the DomainError returned, kinds the events pushed,      *)
(* transcript whether ctx.transcript is set, words whether ctx.aligned_words*)
(* is set and how ("unset", "empty" when the aligner returned no word,     *)
(* "words"), session_id the id a remote service returned (NoId for a stage *)
(* that leaves ctx.session_id alone).                                      *)
(***************************************************************************)
EventKinds == {"FinalTranscript", "AlignmentUpdate"}

Outcome(res, kinds, t, w) ==
    [result |-> res, kinds |-> kinds, transcript |-> t, words |-> w, session_id |-> NoId,
     samples |-> "kept"]
Failure(err) == Outcome(err, <<>>, FALSE, "unset")

\* validate_sample_rate and validate_optional_text of the services' request mappers
ValidRate(hz) == 8000 <= hz /\ hz <= 192000
ValidText(t, max) == t = NoId \/ (1 <= TextLen(t) /\ TextLen(t) <= max)

\* session_id: Some(context.session_id.clone()) in the request of a remote stage.
\* Its slip: the stage sends no session id.
RequestSessionId_none(ctx) == NoId
RequestSessionId(ctx) == ctx.session_id

\* map_transform_request / map_transcribe_request / map_enrich_request: the service
\* answers invalid_argument
ServiceRejects(svc, ctx) ==
    \/ ctx.samples = <<>>
    \/ ~ValidRate(ctx.sample_rate_hz)
    \/ ~ValidText(RequestSessionId(ctx), 64)
    \/ svc = "asr" /\ ~ValidText(ctx.language_hint, 16)

\* the session id of a service's response: the one of the request, or a new one
ServiceSessionId(svc, ctx) == unwrap_or_else(RequestSessionId(ctx), Id("uuid", 36) \o <<svc>>)

\* tokio::time::timeout(self.request_timeout, rpc) elapsed: the error of the stage.
\* Its slip: the error does not name the stage's service.
TimedOut_unnamed(svc) == Failure(external_service_error("grpc", "gRPC request timed out"))
TimedOut(svc) == Failure(external_service_error(svc, "gRPC request timed out"))

\* response.transcript.ok_or_else(..).and_then(map_transcript_from_proto)? of the asr
\* and alignment stages, before any assignment to the context: the response has no
\* transcript, or its language tag does not map.  Its slip: context.session_id is
\* assigned before the transcript is checked.
InvalidResponses_after_session_id(svc, ctx) ==
    IF svc = "audio" THEN {}
    ELSE {[Failure(internal_error(m)) EXCEPT !.session_id = Id("uuid", 36) \o <<svc>>] :
             m \in {<<svc, "response missing transcript">>, <<"invalid language tag code">>}}
InvalidResponses(svc, ctx) ==
    IF svc = "audio" THEN {}
    ELSE {Failure(internal_error(m)) :
             m \in {<<svc, "response missing transcript">>, <<"invalid language tag code">>}}

\* execute of a stage that calls the service svc: the RPC times out, is refused, or
\* succeeds; the response is then invalid, or yields one of the outcomes oks and
\* the session id of the response
RemoteOutcomes(svc, ctx, oks) ==
    {TimedOut(svc)}
        \cup (IF ServiceRejects(svc, ctx)
              THEN {Failure(external_service_error(svc, "gRPC invalid argument"))}
              ELSE InvalidResponses(svc, ctx)
                       \cup {[o EXCEPT !.session_id = ServiceSessionId(svc, ctx)] : o \in oks})

\* sample.clamp(-1.0, 1.0) in place, for each sample of ctx.audio.samples
Clamped == [Outcome(Ok, <<>>, FALSE, "unset") EXCEPT !.samples = "clamped"]

\* AudioPreprocessStage / ResampleStage / AudioTransformStage: no event
AudioOutcomes(name, ctx) ==
    CASE name = "audio_transform" -> RemoteOutcomes("audio", ctx, {Clamped})
      [] name = "resample" ->
            {Outcome(Ok, <<>>, FALSE, "unset"),
             Failure(internal_error(<<"sample rate must be greater than zero">>))}
      [] OTHER -> {Clamped}

\* WhisperTranscriptionStage / AsrTranscribeStage.  The slip: the transcript is
\* stored and no FinalTranscript event is pushed.
TranscriptionSucceeds_silently == Outcome(Ok, <<>>, TRUE, "unset")
TranscriptionSucceeds == Outcome(Ok, <<"FinalTranscript">>, TRUE, "unset")
TranscriptionOutcomes(name, ctx) ==
    IF name = "asr_transcribe"
    THEN RemoteOutcomes("asr", ctx, {TranscriptionSucceeds})
    ELSE {TranscriptionSucceeds,
          Failure(external_service_error("whisper", "transcription failed"))}

\* context.transcript.clone().ok_or_else(..) of the alignment stages.  Its slip:
\* the aligner is called without a transcript.
TranscriptMissing_unchecked(ctx) == FALSE
TranscriptMissing(ctx) == ctx.transcript = Absent

\* ForcedAlignmentStage / Wav2Vec2AlignmentStage / AlignmentEnrichStage; the aligner
\* may return no word at all
AlignmentOutcomes(name, ctx) ==
    IF TranscriptMissing(ctx)
    THEN {Failure(internal_error(<<"no transcript available">>))}
    ELSE IF name = "alignment_enrich"
    THEN RemoteOutcomes("alignment", ctx,
                        {Outcome(Ok, <<"AlignmentUpdate">>, TRUE, w) : w \in {"words", "empty"}})
    ELSE {Outcome(Ok, <<"AlignmentUpdate">>, FALSE, w) : w \in {"words", "empty"}}
             \cup {Failure(external_service_error("wav2vec2", "alignment failed"))}

\* any other implementation of PipelineStage (TestStage, MockAsrStage, ...)
CustomOutcomes ==
    {Outcome(res, [i \in 1..k |-> IF i % 2 = 1 THEN "FinalTranscript" ELSE "AlignmentUpdate"],
             FALSE, "unset") :
        res \in {Ok, internal_error(<<"custom stage failed">>)}, k \in 0..MaxStageEvents}

\* PipelineStage::execute of the stage loaded for step name, on ctx
StageOutcomes(name, ctx) ==
    CASE name \in {"audio_clamp", "resample", "audio_transform"} -> AudioOutcomes(name, ctx)
      [] name \in {"whisper_transcription", "asr_transcribe"} -> TranscriptionOutcomes(name, ctx)
      [] name \in {"wav2vec2_alignment", "alignment_enrich"} -> AlignmentOutcomes(name, ctx)
      [] OTHER -> CustomOutcomes

\* what the execution of stage i in run r obtained from its backend: the transcript,
\* or the words
Produced(r, i) == [run |-> r, stage |-> i]

\* the events one execution pushes: DomainEvent values, told apart by their origin;
\* payload is the transcript or the words the event carries
PushedEvents(o, r, i) ==
    [n \in 1..Len(o.kinds) |->
        [kind |-> o.kinds[n], run |-> r, stage |-> i, n |-> n,
         payload |-> IF o.kinds[n] = "AlignmentUpdate" /\ o.words = "empty"
                     THEN Absent ELSE Produced(r, i)]]

\* the samples of the buffer, each clamped to [-1, 1]
clamp_samples(samples) ==
    [k \in DOMAIN samples |->
        IF samples[k] > 1 THEN 1 ELSE IF samples[k] < -1 THEN -1 ELSE samples[k]]

\* the effect of execute(&mut context): the stage mutates the one shared context.
\* Its slip: the stage is handed a copy, and its mutations are lost.
Execute_on_copy(ctx, o, r, i) == ctx
Execute(ctx, o, r, i) ==
    [ctx EXCEPT !.samples = IF o.samples = "clamped" THEN clamp_samples(@) ELSE @,
                !.events = @ \o PushedEvents(o, r, i),
                !.transcript = IF o.transcript THEN Produced(r, i) ELSE @,
                !.aligned_words = CASE o.words = "words" -> Produced(r, i)
                                    [] o.words = "empty" -> Absent
                                    [] OTHER -> @,
                !.session_id = IF o.session_id = NoId THEN @ ELSE o.session_id]

(***************************************************************************)
(* PipelineEngine::run: for stage in &self.stages { stage.execute(ctx)? }  *)
(***************************************************************************)
NoRun == [phase |-> "idle", idx |-> 0, result |-> Ok, cause |-> ""]

\* entering the loop: the first stage is entered, or run returns Ok at once
RunStart(n, cause) ==
    IF n = 0 THEN [phase |-> "returned", idx |-> 0, result |-> Ok, cause |-> cause]
    ELSE [phase |-> "in_stage", idx |-> 1, result |-> Ok, cause |-> cause]

\* the ? after execute(...).await: abort on the first error, else the next stage.
\* Its slip: the error is swallowed and the loop goes on.
RunAfterStage_swallowing(r, res, n) ==
    IF r.idx < n THEN [r EXCEPT !.idx = @ + 1]
    ELSE [r EXCEPT !.phase = "returned"]
RunAfterStage(r, res, n) ==
    IF res # Ok THEN [r EXCEPT !.phase = "returned", !.result = res]
    ELSE IF r.idx < n THEN [r EXCEPT !.idx = @ + 1]
    ELSE [r EXCEPT !.phase = "returned"]

\* an entry of execLog: the stage at position idx was entered; result is what its
\* execute returned, Pending while it has not
Pending == [kind |-> "Pending", msg |-> <<>>]
Entered(i) == [idx |-> i, result |-> Pending]

InFlight(r) == IF r.phase = "in_stage" THEN 1 ELSE 0

\* the call engine.run(ctx) in session s: a fresh pass over self.stages
EnterRun(s, cause) ==
    LET r2 == RunStart(Len(build.stages), cause)
    IN /\ run' = [run EXCEPT ![s] = r2]
       /\ execLog' = [execLog EXCEPT ![s] = IF r2.phase = "in_stage" THEN <<Entered(1)>> ELSE <<>>]
       /\ appended' = [appended EXCEPT ![s] = <<>>]
       /\ runNo' = [runNo EXCEPT ![s] = @ + 1]
       /\ activeRuns' = [activeRuns EXCEPT ![s] = @ + InFlight(r2)]
       /\ inStage' = [inStage EXCEPT ![s] = @ + InFlight(r2)]

\* one stage returns: stage.execute(context).await completes in session s
StageReturn(s) ==
    /\ run[s].phase = "in_stage"
    /\ \E o \in StageOutcomes(build.stages[run[s].idx], context[s]) :
          LET r2 == RunAfterStage(run[s], o.result, Len(build.stages))
          IN /\ context' = [context EXCEPT ![s] = Execute(@, o, runNo[s], run[s].idx)]
             /\ appended' = [appended EXCEPT ![s] = @ \o PushedEvents(o, runNo[s], run[s].idx)]
             /\ run' = [run EXCEPT ![s] = r2]
             /\ execLog' = [execLog EXCEPT ![s] =
                               LET done == [@ EXCEPT ![Len(@)].result = o.result]
                               IN IF r2.phase = "in_stage" THEN Append(done, Entered(r2.idx))
                                  ELSE done]
             /\ activeRuns' = [activeRuns EXCEPT ![s] = @ - 1 + InFlight(r2)]
             /\ inStage' = [inStage EXCEPT ![s] = @ - 1 + InFlight(r2)]
    /\ UNCHANGED <<buildVars, envVars, inbox, peer, conn, sent, received, runNo>>

\* a one-shot request: PipelineContext::new, then pipeline.run(&mut context)
RunEngine(s) ==
    /\ build.status = "built"
    /\ ~context[s].present
    /\ context' = [context EXCEPT ![s] = [NewContext(Id("session", 7), NoId) EXCEPT !.samples = <<1>>]]
    /\ EnterRun(s, "request")
    /\ UNCHANGED <<buildVars, envVars, inbox, peer, conn, sent, received>>

(***************************************************************************)
(* Construction and one-shot execution: any definition of bounded size,    *)
(* either loader, any plugin configuration.                                *)
(***************************************************************************)
Definitions(l) ==
    [pre : SeqsUpTo(StepNames(l), MaxPre), transcription : StepNames(l),
     post : SeqsUpTo(StepNames(l), MaxPost)]

Configs ==
    [resample_enabled : BOOLEAN, whisper_runtime : BOOLEAN,
     wav2vec2 : {"absent", "load_fails", "ready"}]

DefaultConfig == [resample_enabled |-> FALSE, whisper_runtime |-> TRUE, wav2vec2 |-> "ready"]

\* no one-shot command received, none answered
NoRequest ==
    [present |-> FALSE, samples |-> <<>>, sample_rate_hz |-> <<>>, language_hint |-> NoId,
     session_id |-> NoId]
NoResponse ==
    [status |-> "none", error |-> Ok, session_id |-> NoId, transcript |-> Absent,
     aligned_words |-> Absent]

\* no signal-processing call in progress
NoCalc == [fn |-> "none"]

IdleSessions(S) ==
    /\ sessions = S
    /\ request = [s \in S |-> NoRequest]
    /\ response = [s \in S |-> NoResponse]
    /\ inbox = [s \in S |-> <<>>]
    /\ peer = [s \in S |-> "up"]
    /\ conn = [s \in S |-> "open"]
    /\ context = [s \in S |-> NoContext]
    /\ sent = [s \in S |-> <<>>]
    /\ run = [s \in S |-> NoRun]
    /\ received = [s \in S |-> 0]
    /\ execLog = [s \in S |-> <<>>]
    /\ appended = [s \in S |-> <<>>]
    /\ activeRuns = [s \in S |-> 0]
    /\ inStage = [s \in S |-> 0]
    /\ runNo = [s \in S |-> 0]

InitEngine ==
    /\ loader \in {"plugin", "grpc"}
    /\ config \in (IF loader = "plugin" THEN Configs ELSE {DefaultConfig})
    /\ definition \in Definitions(loader)
    /\ build = [status |-> "loading", next |-> 1, stages |-> <<>>, error |-> Ok]
    /\ loadCalls = <<>>
    /\ alphabet = {}
    /\ calc = NoCalc
    /\ IdleSessions({1})

NextEngine ==
    \/ LoadStep
    \/ \E s \in sessions : RunEngine(s)
    \/ \E s \in sessions : StageReturn(s)

SpecEngine == InitEngine /\ [][NextEngine]_vars

(***************************************************************************)
(* The streaming protocol: frames, envelopes and server messages.          *)
(***************************************************************************)
PROTOCOL_VERSION == 1

\* a websocket frame as socket.next() yields it; a Text frame carries the JSON of
\* a ClientEnvelope (type "not_json" stands for text serde_json cannot parse)
Text(v, t, sid, pcm) ==
    [ws |-> "text", version |-> v, type |-> t, session_id |-> sid, pcm_f32 |-> pcm]
Ws(k) == [ws |-> k, version |-> 0, type |-> "", session_id |-> NoId, pcm_f32 |-> <<>>]

MessageTypes == {"start", "audio_frame", "flush", "stop", "ping"}

StreamFrames ==
    {Text(PROTOCOL_VERSION, "start", sid, <<>>) : sid \in {NoId, Id("it", 2)}}
        \cup {Text(PROTOCOL_VERSION, "audio_frame", NoId, pcm) : pcm \in {<<1>>, <<2>>}}
        \cup {Text(PROTOCOL_VERSION, t, NoId, <<>>) : t \in {"flush", "stop", "ping"}}
        \cup {Text(2, t, NoId, <<>>) : t \in MessageTypes}
        \cup {Text(0, "not_json", NoId, <<>>)}
        \cup {Ws(k) : k \in {"binary", "ping", "pong", "close"}}

\* the frames of the sessions that share one engine
SharedFrames ==
    {Text(PROTOCOL_VERSION, "start", NoId, <<>>),
     Text(PROTOCOL_VERSION, "audio_frame", NoId, <<2>>),
     Text(PROTOCOL_VERSION, "flush", NoId, <<>>)}

NoEvent == [kind |-> "", run |-> 0, stage |-> 0, n |-> 0, payload |-> Absent]

\* ServerMessage
ServerMessage(t, sid, ev, m) == [type |-> t, session_id |-> sid, event |-> ev, message |-> m]
Ready(sid) == ServerMessage("ready", sid, NoEvent, <<>>)
\* ServerMessage::Pong.  Its slip: a ping is answered by echoing a ping.
Pong_echo == ServerMessage("ping", NoId, NoEvent, <<>>)
Pong == ServerMessage("pong", NoId, NoEvent, <<>>)
\* ServerMessage::Error { message }
Error(message) == ServerMessage("error", NoId, NoEvent, message)
\* err.to_string(): the text of a DomainError.  A Streaming error reads as its
\* message; the other kinds are taken to name the kind before their fields.
\* (SPEC-MODELLED: the enum and its Display are defined outside the sources at hand.)
to_string(err) == IF err.kind = "Streaming" THEN err.msg ELSE <<err.kind>> \o err.msg

\* impl From<DomainEvent> for ServerMessage
FromEvent(ev) ==
    ServerMessage(IF ev.kind = "FinalTranscript" THEN "final_transcript"
                  ELSE "alignment_update", NoId, ev, <<>>)

\* envelope.version != PROTOCOL_VERSION, and the check left out
VersionSupported_any(v) == TRUE
VersionSupported(v) == v = PROTOCOL_VERSION

\* one send_message call: the message, and whether socket.send succeeded
Sent(m, up) == [msg |-> m, ok |-> up]

PeerUp(s) == peer[s] = "up"

\* handle_socket is back at socket.next().await: the previous frame's handler
\* has completed.  Its slip: the handler is spawned and not awaited.
DriverAwaitingMessage_spawned(s) == conn[s] = "open"
DriverAwaitingMessage(s) == conn[s] = "open" /\ run[s].phase = "idle"

\* what handle_socket does to the connection after it sent the Error of a failed
\* process_text_message: return.  Its slip: the loop goes on.
ConnAfterHandlerError_continue == "open"
ConnAfterHandlerError == "closed"

\* std::mem::take(&mut ctx.events), and its slip: the events are cloned and stay
TakeEvents_clone(ctx) == ctx
TakeEvents(ctx) == [ctx EXCEPT !.events = <<>>]

\* what the Flush | Stop arm leaves of ctx.audio.samples: the arm has no statement
\* on the buffer.  Its slip: the buffer is drained for the next utterance.
SamplesAfterFlush_drained(samples) == <<>>
SamplesAfterFlush(samples) == samples

\* the Err branch of handle_socket for session s: one Error message, then return
HandlerError(s, err) ==
    /\ sent' = [sent EXCEPT ![s] = Append(@, Sent(Error(to_string(err)), PeerUp(s)))]
    /\ conn' = [conn EXCEPT ![s] = ConnAfterHandlerError]

\* the driver takes the head frame of session s from the socket
Take(s) ==
    /\ DriverAwaitingMessage(s)
    /\ inbox[s] # <<>>
    /\ inbox' = [inbox EXCEPT ![s] = Tail(@)]
    /\ received' = [received EXCEPT ![s] = @ + 1]

runVars == <<run, execLog, appended, activeRuns, inStage, runNo>>

(***************************************************************************)
(* The client and the transport.                                           *)
(***************************************************************************)
Budget == IF Cardinality(sessions) > 1 THEN MaxConcMsgs ELSE MaxClientMsgs

\* the frames the clients of the sessions S have sent so far
RECURSIVE FramesSent(_)
FramesSent(S) ==
    IF S = {} THEN 0
    ELSE LET s == CHOOSE x \in S : TRUE
         IN received[s] + Len(inbox[s]) + FramesSent(S \ {s})

ClientSend(s) ==
    /\ conn[s] = "open" /\ PeerUp(s)
    /\ Len(inbox[s]) < MaxInbox
    /\ FramesSent(sessions) < Budget
    /\ \E f \in alphabet : inbox' = [inbox EXCEPT ![s] = Append(@, f)]
    /\ UNCHANGED <<buildVars, envVars, peer, conn, context, sent, received, runVars>>

\* the client vanishes: from now on socket.send fails and socket.next ends
PeerDrop(s) ==
    /\ conn[s] = "open" /\ PeerUp(s)
    /\ peer' = [peer EXCEPT ![s] = "gone"]
    /\ UNCHANGED <<buildVars, envVars, inbox, conn, context, sent, received, runVars>>

(***************************************************************************)
(* handle_socket: one action per arm of the match on socket.next(), with   *)
(* process_text_message inlined for Text frames.                           *)
(***************************************************************************)
IsText(f) == f.ws = "text"
Parses(f) == IsText(f) /\ f.type # "not_json"
Accepted(f) == Parses(f) /\ VersionSupported(f.version)

\* send_message(...).await? inside process_text_message: on a send error the
\* handler fails, handle_socket tries to send the Error and returns
SendOrFail(s, m) ==
    IF PeerUp(s)
    THEN /\ sent' = [sent EXCEPT ![s] = Append(@, Sent(m, TRUE))]
         /\ conn' = conn
    ELSE /\ sent' = [sent EXCEPT ![s] = @ \o <<Sent(m, FALSE),
                                              Sent(Error(to_string(Streaming(<<"send error">>))), FALSE)>>]
         /\ conn' = [conn EXCEPT ![s] = ConnAfterHandlerError]

\* serde_json::from_str fails, or the envelope's version is not PROTOCOL_VERSION
RecvRejected(s) ==
    /\ Take(s)
    /\ LET f == Head(inbox[s])
       IN /\ IsText(f) /\ ~Accepted(f)
          /\ HandlerError(s, IF ~Parses(f) THEN Streaming(<<"invalid message">>)
                             ELSE Streaming(<<"unsupported protocol version", ToString(f.version),
                                              "expected", ToString(PROTOCOL_VERSION)>>))
    /\ UNCHANGED <<buildVars, envVars, peer, context, runVars>>

\* Uuid::new_v4().to_string(): an id no earlier call returned.  The frame count of
\* the connection tells the calls of one connection apart.
new_v4(s) == Id("uuid", 36) \o <<s, received[s]>>

\* context.as_mut().ok_or_else(..): whether Start has created the context.  Its
\* slip: a missing context is taken for a started one.
ContextStarted_unchecked(ctx) == TRUE
ContextStarted(ctx) == ctx.present

\* ctx.audio.samples.extend(pcm_f32).  Its slip: the buffer is assigned, not extended.
ExtendSamples_assign(samples, pcm) == pcm
ExtendSamples(samples, pcm) == samples \o pcm

\* ClientMessage::Start
RecvStart(s) ==
    /\ Take(s)
    /\ LET f == Head(inbox[s])
           sid == unwrap_or_else(f.session_id, new_v4(s))
       IN /\ Accepted(f) /\ f.type = "start"
          /\ context' = [context EXCEPT ![s] = NewContext(sid, NoId)]
          /\ SendOrFail(s, Ready(sid))
    /\ UNCHANGED <<buildVars, envVars, peer, runVars>>

\* ClientMessage::AudioFrame
RecvAudioFrame(s) ==
    /\ Take(s)
    /\ LET f == Head(inbox[s])
       IN /\ Accepted(f) /\ f.type = "audio_frame"
          /\ IF ~ContextStarted(context[s])
             THEN /\ HandlerError(s, Streaming(<<"start must be sent first">>))
                  /\ UNCHANGED context
             ELSE /\ context' = [context EXCEPT ![s].samples = ExtendSamples(@, f.pcm_f32)]
                  /\ UNCHANGED <<sent, conn>>
    /\ UNCHANGED <<buildVars, envVars, peer, runVars>>

\* AsrSessionUseCase::process_existing_context(ctx): runs the engine on ctx
process_existing_context(s, cause) == EnterRun(s, cause)

\* ClientMessage::Flush | ClientMessage::Stop, up to the call of the use case
RecvFlushOrStop(s) ==
    /\ Take(s)
    /\ LET f == Head(inbox[s])
       IN /\ Accepted(f) /\ f.type \in {"flush", "stop"}
          /\ IF ~ContextStarted(context[s])
             THEN /\ HandlerError(s, Streaming(<<"start must be sent first">>))
                  /\ UNCHANGED runVars
             ELSE /\ process_existing_context(s, f.type)
                  /\ UNCHANGED <<sent, conn>>
    /\ UNCHANGED <<buildVars, envVars, peer, context>>

\* the messages of a drain that delivers the first k of evs and, when k < Len(evs),
\* fails on the next one
DrainSends(evs, k) ==
    [i \in 1..k |-> Sent(FromEvent(evs[i]), TRUE)]
        \o (IF k < Len(evs)
            THEN <<Sent(FromEvent(evs[k + 1]), FALSE), Sent(Error(to_string(Streaming(<<"send error">>))), FALSE)>>
            ELSE <<>>)

\* Flush | Stop after process_existing_context(ctx).await returned: the ? on its
\* result, then take ctx.events and send each event
FinishRun(s) ==
    /\ conn[s] = "open"
    /\ run[s].phase = "returned" /\ run[s].cause \in {"flush", "stop"}
    /\ IF run[s].result # Ok
       THEN /\ HandlerError(s, run[s].result)
            /\ UNCHANGED <<context, peer>>
       ELSE LET evs == context[s].events
            IN \E k \in (IF PeerUp(s) THEN 0..Len(evs) ELSE {0}) :
                  /\ context' = [context EXCEPT ![s] =
                                    [TakeEvents(@) EXCEPT !.samples = SamplesAfterFlush(@)]]
                  /\ sent' = [sent EXCEPT ![s] = @ \o DrainSends(evs, k)]
                  /\ conn' = [conn EXCEPT ![s] = IF k < Len(evs) THEN ConnAfterHandlerError ELSE @]
                  /\ peer' = [peer EXCEPT ![s] = IF k < Len(evs) THEN "gone" ELSE @]
    /\ run' = [run EXCEPT ![s] = NoRun]
    /\ execLog' = [execLog EXCEPT ![s] = <<>>]
    /\ appended' = [appended EXCEPT ![s] = <<>>]
    /\ UNCHANGED <<buildVars, envVars, inbox, received, activeRuns, inStage, runNo>>

\* ClientMessage::Ping
RecvTextPing(s) ==
    /\ Take(s)
    /\ LET f == Head(inbox[s])
       IN /\ Accepted(f) /\ f.type = "ping"
          /\ SendOrFail(s, Pong)
    /\ UNCHANGED <<buildVars, envVars, peer, context, runVars>>

\* Ok(Message::Binary(_)): let _ = send_message(Error), the loop goes on
RecvBinary(s) ==
    /\ Take(s)
    /\ Head(inbox[s]).ws = "binary"
    /\ sent' = [sent EXCEPT ![s] = Append(@, Sent(Error(
                   <<"binary frames are not supported; use JSON audio_frame">>), PeerUp(s)))]
    /\ UNCHANGED <<buildVars, envVars, peer, conn, context, runVars>>

\* Ok(Message::Ping(_)): let _ = send_message(Pong)
RecvWsPing(s) ==
    /\ Take(s)
    /\ Head(inbox[s]).ws = "ping"
    /\ sent' = [sent EXCEPT ![s] = Append(@, Sent(Pong, PeerUp(s)))]
    /\ UNCHANGED <<buildVars, envVars, peer, conn, context, runVars>>

\* Ok(_) => {}
RecvOther(s) ==
    /\ Take(s)
    /\ Head(inbox[s]).ws = "pong"
    /\ UNCHANGED <<buildVars, envVars, peer, conn, context, sent, runVars>>

\* Ok(Message::Close(_)) => return
RecvClose(s) ==
    /\ Take(s)
    /\ Head(inbox[s]).ws = "close"
    /\ conn' = [conn EXCEPT ![s] = "closed"]
    /\ UNCHANGED <<buildVars, envVars, peer, context, sent, runVars>>

\* Err(err) => return, or the stream ended (None): the peer is gone
RecvTransportEnd(s) ==
    /\ DriverAwaitingMessage(s)
    /\ ~PeerUp(s)
    /\ conn' = [conn EXCEPT ![s] = "closed"]
    /\ UNCHANGED <<buildVars, envVars, inbox, peer, context, sent, received, runVars>>

(***************************************************************************)
(* The streaming server: an engine already built, one connection.          *)
(***************************************************************************)
StreamDefinitions ==
    {[loader |-> "grpc",
      def |-> [pre |-> <<"audio_transform">>, transcription |-> "asr_transcribe",
               post |-> <<"alignment_enrich">>]],
     [loader |-> "plugin",
      def |-> [pre |-> <<>>, transcription |-> "custom", post |-> <<"custom">>]]}

\* the state from_definition leaves when every step loaded
Built(def) ==
    [status |-> "built", next |-> Len(ordered_steps(def)) + 1,
     stages |-> ordered_steps(def), error |-> Ok]

InitServer(S, frames, defs) ==
    /\ \E d \in defs :
          /\ loader = d.loader
          /\ definition = d.def
          /\ build = Built(d.def)
          /\ loadCalls = ordered_steps(d.def)
    /\ config = DefaultConfig
    /\ alphabet = frames
    /\ calc = NoCalc
    /\ IdleSessions(S)

Init == InitServer({1}, StreamFrames, StreamDefinitions)

Next ==
    \/ \E s \in sessions : ClientSend(s)
    \/ \E s \in sessions : PeerDrop(s)
    \/ \E s \in sessions : RecvRejected(s)
    \/ \E s \in sessions : RecvStart(s)
    \/ \E s \in sessions : RecvAudioFrame(s)
    \/ \E s \in sessions : RecvFlushOrStop(s)
    \/ \E s \in sessions : StageReturn(s)
    \/ \E s \in sessions : FinishRun(s)
    \/ \E s \in sessions : RecvTextPing(s)
    \/ \E s \in sessions : RecvBinary(s)
    \/ \E s \in sessions : RecvWsPing(s)
    \/ \E s \in sessions : RecvOther(s)
    \/ \E s \in sessions : RecvClose(s)
    \/ \E s \in sessions : RecvTransportEnd(s)

Spec == Init /\ [][Next]_vars

(***************************************************************************)
(* Several connections on the one shared engine.                           *)
(***************************************************************************)
InitConc == InitServer(1..NumSessions, SharedFrames, {d \in StreamDefinitions : d.loader = "grpc"})

NextConc ==
    \/ \E s \in sessions : ClientSend(s)
    \/ \E s \in sessions : RecvStart(s)
    \/ \E s \in sessions : RecvAudioFrame(s)
    \/ \E s \in sessions : RecvFlushOrStop(s)
    \/ \E s \in sessions : StageReturn(s)
    \/ \E s \in sessions : FinishRun(s)

SpecConc == InitConc /\ [][NextConc]_vars

(***************************************************************************)
(* The one-shot command: TranscribeAudioCommand executed by the command    *)
(* service (validate, then the handler), which calls AsrUseCaseImpl::      *)
(* transcribe.  An Option<u32> is <<>> or <<value>>.                       *)
(***************************************************************************)
DefaultSampleRate == 16000

TranscribeAudioRequest(samples, rate, hint, sid) ==
    [present |-> TRUE, samples |-> samples, sample_rate_hz |-> rate, language_hint |-> hint,
     session_id |-> sid]

Requests ==
    {TranscribeAudioRequest(samples, rate, hint, sid) :
        samples \in {<<>>, <<1>>},
        rate \in {<<>>, <<7999>>, <<8000>>, <<192000>>, <<192001>>},
        hint \in {NoId, Id("", 0), Id("en", 2), Id("other", 16), Id("other", 17)},
        sid \in {NoId, Id("", 0), Id("sid", 1), Id("sid", 64), Id("sid", 65)}}

\* ApplicationError, and CommandError::validation
ApplicationError(kind, msg) == [kind |-> kind, msg |-> msg]
\* impl From<DomainError> for ApplicationError: by kind
\* (SPEC-MODELLED: the enum and the conversion are defined outside the sources at hand.)
FromDomainError(err) == ApplicationError(err.kind, <<"domain">> \o err.msg)

\* Command::validate of TranscribeAudioCommand
validate(req) ==
    IF req.samples = <<>>
    THEN ApplicationError("Validation",
                          <<"samples_missing", "samples must contain at least one frame">>)
    ELSE Ok

\* parse_language_hint: the error it returns, if any
parse_language_hint(hint) ==
    IF hint # NoId /\ TextLen(hint) = 0
    THEN ApplicationError("Validation", <<"language_hint cannot be empty">>)
    ELSE Ok

\* context.transcript.clone().ok_or_else(..).  Its slip: a missing transcript is
\* replaced by an empty one.
transcript_ok_or_else_default(ctx) == Ok
transcript_ok_or_else(ctx) ==
    IF ctx.transcript = Absent
    THEN ApplicationError("Internal", <<"transcription pipeline returned no transcript">>)
    ELSE Ok

\* the words of the first AlignmentUpdate among events q, or none
RECURSIVE FirstAlignmentUpdate(_)
FirstAlignmentUpdate(q) ==
    IF q = <<>> THEN Absent
    ELSE IF Head(q).kind = "AlignmentUpdate" THEN Head(q).payload
    ELSE FirstAlignmentUpdate(Tail(q))

\* extract_alignment_words
extract_alignment_words(ctx) ==
    IF ctx.aligned_words # Absent THEN ctx.aligned_words
    ELSE FirstAlignmentUpdate(ctx.events)

Failed(err) == [NoResponse EXCEPT !.status = "err", !.error = err]
TranscribeAudioResponse(ctx) ==
    [status |-> "ok", error |-> Ok, session_id |-> ctx.session_id,
     transcript |-> ctx.transcript, aligned_words |-> extract_alignment_words(ctx)]

\* the command is executed: Command::validate, then AsrUseCaseImpl::transcribe up
\* to self.pipeline.run(&mut context)
Transcribe(s) ==
    /\ build.status = "built"
    /\ ~request[s].present /\ ~context[s].present
    /\ \E req \in Requests :
          /\ request' = [request EXCEPT ![s] = req]
          /\ IF validate(req) # Ok
             THEN /\ response' = [response EXCEPT ![s] = Failed(validate(req))]
                  /\ UNCHANGED <<context, runVars>>
             ELSE IF parse_language_hint(req.language_hint) # Ok
             THEN /\ response' = [response EXCEPT ![s] =
                                     Failed(parse_language_hint(req.language_hint))]
                  /\ UNCHANGED <<context, runVars>>
             ELSE /\ context' = [context EXCEPT ![s] =
                        [NewContext(unwrap_or_else(req.session_id, new_v4(s)),
                                    req.language_hint)
                            EXCEPT !.sample_rate_hz = IF req.sample_rate_hz = <<>>
                                                      THEN DefaultSampleRate
                                                      ELSE req.sample_rate_hz[1],
                                   !.samples = req.samples]]
                  /\ EnterRun(s, "transcribe")
                  /\ UNCHANGED response
    /\ UNCHANGED <<buildVars, sessions, alphabet, inbox, peer, conn, sent, received, calc>>

\* self.pipeline.run(&mut context).await? has returned: the rest of transcribe
TranscribeReturn(s) ==
    /\ run[s].phase = "returned" /\ run[s].cause = "transcribe"
    /\ response[s].status = "none"
    /\ response' = [response EXCEPT ![s] =
                       IF run[s].result # Ok THEN Failed(FromDomainError(run[s].result))
                       ELSE IF transcript_ok_or_else(context[s]) # Ok
                       THEN Failed(transcript_ok_or_else(context[s]))
                       ELSE TranscribeAudioResponse(context[s])]
    /\ UNCHANGED <<buildVars, sessions, alphabet, request, inbox, peer, conn, context, sent,
                   received, runVars, calc>>

OneShotDefinitions ==
    {[loader |-> "grpc",
      def |-> [pre |-> <<"audio_transform">>, transcription |-> "asr_transcribe",
               post |-> <<"alignment_enrich">>]],
     [loader |-> "plugin",
      def |-> [pre |-> <<>>, transcription |-> "whisper_transcription",
               post |-> <<"wav2vec2_alignment", "wav2vec2_alignment">>]],
     [loader |-> "plugin",
      def |-> [pre |-> <<"audio_clamp">>, transcription |-> "custom",
               post |-> <<"wav2vec2_alignment">>]],
     [loader |-> "plugin",
      def |-> [pre |-> <<>>, transcription |-> "custom", post |-> <<>>]]}

InitOneShot == InitServer({1}, {}, OneShotDefinitions)

NextOneShot ==
    \/ \E s \in sessions : Transcribe(s)
    \/ \E s \in sessions : StageReturn(s)
    \/ \E s \in sessions : TranscribeReturn(s)

SpecOneShot == InitOneShot /\ [][NextOneShot]_vars

(***************************************************************************)
(* The whisper adapter of the asr service: WhisperTranscriptionAdapter::   *)
(* transcribe_with_runtime.  Integers are WordBits wide instead of 64, so  *)
(* that checked_mul and saturating_add reach their limits.                 *)
(***************************************************************************)
WordBits == 6
MaxTick == 2
MaxTokens == 2
MaxSegments == 2
MaxCodeLen == 2

U64Max == 2^WordBits - 1
I64Max == 2^(WordBits - 1) - 1
Min(a, b) == IF a < b THEN a ELSE b
Max(a, b) == IF a > b THEN a ELSE b
saturating_add(a, b) == Min(a + b, U64Max)
saturating_sub(a, b) == Max(a - b, 0)
\* Option<u64>: <<>> is None, <<v>> is Some(v)
unwrap_or(opt, default) == IF opt = <<>> THEN default ELSE opt[1]

\* u64::try_from(raw).ok()?.checked_mul(10)
to_ms_10ms_units(raw) == IF raw < 0 \/ raw * 10 > U64Max THEN <<>> ELSE <<raw * 10>>
\* to_ms_10ms_units(t_dtw).or_else(|| to_ms_10ms_units(t0))
token_start_hint_ms(t_dtw, t0) ==
    IF to_ms_10ms_units(t_dtw) # <<>> THEN to_ms_10ms_units(t_dtw) ELSE to_ms_10ms_units(t0)
token_end_hint_ms(t1) == to_ms_10ms_units(t1)

\* the raw timestamps whisper reports, in units of 10 ms (i64)
RawTicks == (-1..MaxTick) \cup {U64Max \div 10, I64Max}

\* the start hints a token can carry
StartHints == {token_start_hint_ms(t_dtw, t0) : t_dtw \in RawTicks, t0 \in RawTicks}

\* (end_ms - start_ms) / n_tokens, at least 1
token_span(start_ms, end_ms, n_tokens) ==
    IF n_tokens > 0 THEN Max(saturating_sub(end_ms, start_ms) \div n_tokens, 1) ELSE 1

\* let min_end = token_start_ms.saturating_add(1).  Its slip: the start itself.
min_end_same(token_start_ms) == token_start_ms
min_end(token_start_ms) == saturating_add(token_start_ms, 1)

\* Ord::clamp, which asserts min <= max
clamp(v, lo, hi) == IF v < lo THEN lo ELSE IF v > hi THEN hi ELSE v

\* the body of the loop over raw_tokens: the token's start_ms and end_ms, or the
\* panic of clamp(start_ms, end_ms)
ConvertedToken(start_ms, end_ms, span, idx, start_hint_ms, end_hint_ms, next_start_hint_ms) ==
    LET fallback_start_ms == saturating_add(start_ms, idx * span)
        fallback_end_ms == Min(saturating_add(fallback_start_ms, span), end_ms)
        token_start_ms == clamp(unwrap_or(start_hint_ms, fallback_start_ms), start_ms, end_ms)
        hinted_end ==
            IF end_hint_ms # <<>> /\ end_hint_ms[1] > token_start_ms THEN end_hint_ms[1]
            ELSE IF next_start_hint_ms # <<>> /\ next_start_hint_ms[1] > token_start_ms
            THEN next_start_hint_ms[1]
            ELSE fallback_end_ms
        max_end == Max(end_ms, min_end(token_start_ms))
    IN  IF start_ms > end_ms THEN [panicked |-> TRUE, start_ms |-> 0, end_ms |-> 0]
        ELSE [panicked |-> FALSE, start_ms |-> token_start_ms,
              end_ms |-> clamp(hinted_end, min_end(token_start_ms), max_end)]

\* Text is a sequence of characters; trim() and to_ascii_lowercase() of str
Chars == {" ", "F", "r"}
Lower(c) == IF c = "F" THEN "f" ELSE IF c = "A" THEN "a" ELSE IF c = "U" THEN "u"
            ELSE IF c = "T" THEN "t" ELSE IF c = "O" THEN "o" ELSE c
to_ascii_lowercase(t) == [i \in 1..Len(t) |-> Lower(t[i])]
RECURSIVE trim_start(_)
trim_start(t) == IF t # <<>> /\ Head(t) = " " THEN trim_start(Tail(t)) ELSE t
RECURSIVE trim_end(_)
trim_end(t) ==
    IF t # <<>> /\ t[Len(t)] = " " THEN trim_end(SubSeq(t, 1, Len(t) - 1)) ELSE t
trim(t) == trim_end(trim_start(t))

\* LanguageTag, and Option<LanguageTag> with tag "None"
LanguageTag(tag, code) == [tag |-> tag, code |-> code]
NoHint == LanguageTag("None", <<>>)
Auto == LanguageTag("Auto", <<>>)
LanguageHints ==
    {NoHint, Auto, LanguageTag("Fr", <<>>), LanguageTag("En", <<>>)}
        \cup {LanguageTag("Other", c) : c \in SeqsUpTo(Chars, MaxCodeLen) \ {<<>>}}
\* WhisperAdapterConfig.language
ConfigLanguages == {<<>>, <<" ">>, <<"A", "U", "T", "O">>, <<"a", "u", "t", "o">>, <<" ", "F", "r">>}

\* the fallback of resolve_decode_language when no hint is given
configured_language(config_language) ==
    LET normalized == to_ascii_lowercase(trim(config_language))
    IN  IF normalized = <<>> \/ normalized = <<"a", "u", "t", "o">> THEN <<>>
        ELSE <<normalized>>

\* resolve_decode_language: Option<String>
resolve_decode_language(config_language, hint) ==
    IF hint.tag = "Fr" THEN <<<<"f", "r">>>>
    ELSE IF hint.tag = "En" THEN <<<<"e", "n">>>>
    ELSE IF hint.tag = "Auto" THEN <<>>
    ELSE IF hint.tag = "Other"
    THEN LET normalized == to_ascii_lowercase(trim(hint.code))
         IN  IF normalized = <<>> THEN <<>> ELSE <<normalized>>
    ELSE configured_language(config_language)

NoSegment == [start_ms |-> 0, end_ms |-> 0, n_tokens |-> 0, got |-> 0, tokens |-> <<>>]

\* transcribe_with_runtime is called with a request
WhisperCalls ==
    {[fn |-> "whisper", phase |-> "called", config_language |-> l, hint |-> h,
      decode_language |-> <<>>, segments |-> 0, segment |-> NoSegment, pending |-> <<>>,
      language |-> NoHint] : l \in ConfigLanguages, h \in LanguageHints}

\* params.set_language(resolve_decode_language(..).as_deref()); state.full(..)
SetLanguage ==
    /\ calc.fn = "whisper" /\ calc.phase = "called"
    /\ calc' = [calc EXCEPT !.phase = "decoded",
                   !.decode_language = resolve_decode_language(calc.config_language, calc.hint)]
    /\ UNCHANGED <<buildVars, sessions, alphabet, request, response, inbox, peer, conn, context,
                   sent, received, runVars>>

\* the next segment of the decoder: its timestamps, n_tokens, the tokens get_token
\* returns, and the start hint of the first of them
GetSegment ==
    /\ calc.fn = "whisper" /\ calc.phase = "decoded" /\ calc.segments < MaxSegments
    /\ \E t0 \in RawTicks, t1 \in RawTicks, n \in -1..MaxTokens, hint \in StartHints :
          LET start_ms == unwrap_or(to_ms_10ms_units(t0), 0)
              end_ms == unwrap_or(to_ms_10ms_units(t1), start_ms)
          IN  \E got \in 0..Max(n, 0) :
                 calc' = [calc EXCEPT !.phase = "tokens",
                             !.segment = [start_ms |-> start_ms, end_ms |-> end_ms,
                                          n_tokens |-> Max(n, 0), got |-> got, tokens |-> <<>>],
                             !.pending = IF got = 0 THEN <<>> ELSE hint]
    /\ UNCHANGED <<buildVars, sessions, alphabet, request, response, inbox, peer, conn, context,
                   sent, received, runVars>>

\* one turn of the loop over raw_tokens
ConvertToken ==
    /\ calc.fn = "whisper" /\ calc.phase = "tokens"
    /\ Len(calc.segment.tokens) < calc.segment.got
    /\ \E t1 \in RawTicks, hint \in StartHints :
          LET seg == calc.segment
              idx == Len(seg.tokens)
              next == IF idx + 1 < seg.got THEN hint ELSE <<>>
              token == ConvertedToken(seg.start_ms, seg.end_ms,
                                      token_span(seg.start_ms, seg.end_ms, seg.n_tokens), idx,
                                      calc.pending, token_end_hint_ms(t1), next)
          IN  calc' = IF token.panicked THEN [calc EXCEPT !.phase = "panicked"]
                      ELSE [calc EXCEPT !.segment.tokens = Append(@, token), !.pending = next]
    /\ UNCHANGED <<buildVars, sessions, alphabet, request, response, inbox, peer, conn, context,
                   sent, received, runVars>>

\* segments.push(TranscriptSegment {..}); the locals of the loop body end here
PushSegment ==
    /\ calc.fn = "whisper" /\ calc.phase = "tokens"
    /\ Len(calc.segment.tokens) = calc.segment.got
    /\ calc' = [calc EXCEPT !.phase = "decoded", !.segments = @ + 1,
                   !.segment = NoSegment, !.pending = <<>>]
    /\ UNCHANGED <<buildVars, sessions, alphabet, request, response, inbox, peer, conn, context,
                   sent, received, runVars>>

\* Ok(TranscriptionOutput {..}): language is the hint, or Auto
WhisperReturn ==
    /\ calc.fn = "whisper" /\ calc.phase = "decoded"
    /\ calc' = [calc EXCEPT !.phase = "returned",
                   !.language = IF calc.hint = NoHint THEN Auto ELSE calc.hint]
    /\ UNCHANGED <<buildVars, sessions, alphabet, request, response, inbox, peer, conn, context,
                   sent, received, runVars>>

\* a component called on its own: no pipeline, no connection
Standalone ==
    /\ loader = "direct"
    /\ definition = [pre |-> <<>>, transcription |-> "custom", post |-> <<>>]
    /\ build = Built(definition)
    /\ loadCalls = <<>>
    /\ config = DefaultConfig
    /\ alphabet = {}
    /\ IdleSessions({1})

\* the conversion of the decoder's segments, for a request in French or without hint
InitWhisper ==
    /\ Standalone
    /\ calc \in {c \in WhisperCalls : c.config_language = <<>> /\ c.hint.tag \in {"None", "Fr"}}

NextWhisper == SetLanguage \/ GetSegment \/ ConvertToken \/ PushSegment \/ WhisperReturn

SpecWhisper == InitWhisper /\ [][NextWhisper]_vars

\* the language of the decoder and of the transcript, for every hint and every
\* configured language, on audio in which the decoder finds no segment
InitLanguage == Standalone /\ calc \in WhisperCalls

NextLanguage == SetLanguage \/ WhisperReturn

SpecLanguage == InitLanguage /\ [][NextLanguage]_vars

(***************************************************************************)
(* The in-process audio stages: AudioPreprocessStage and ResampleStage.    *)
(* An f32 sample is NaN, an infinity, or a finite amplitude (an integer    *)
(* here); the position arithmetic of the resampler is exact.               *)
(***************************************************************************)
MaxAmp == 2
MaxSamples == 4
MaxClampLen == 2
MaxRate == 3

NaN == [k |-> "nan", v |-> <<0>>]
Inf(sign) == [k |-> "inf", v |-> <<sign>>]
Fin(v) == [k |-> "fin", v |-> <<v>>]
F32Values == {NaN, Inf(1), Inf(-1)} \cup {Fin(v) : v \in {-MaxAmp, -1, 0, 1, MaxAmp}}
\* the rates a context or a stage can carry (u32)
Rates == 0..MaxRate

\* f32::clamp(-1.0, 1.0): NaN stays NaN
f32_clamp(x) ==
    IF x.k = "nan" THEN x
    ELSE IF x.v[1] < -1 \/ x = Inf(-1) THEN Fin(-1)
    ELSE IF x.v[1] > 1 \/ x = Inf(1) THEN Fin(1)
    ELSE x

\* left * (1.0 - frac) + right * frac in f32, for frac = num/den in [0, 1): exact
\* when frac is 0 and right is finite; 0 times an infinity is NaN
Interpolate(left, right, num, den) ==
    IF left.k = "nan" \/ right.k = "nan" THEN NaN
    ELSE IF num = 0 THEN (IF right.k = "inf" THEN NaN ELSE left)
    ELSE IF left.k = "inf" /\ right.k = "inf"
    THEN (IF left = right THEN left ELSE NaN)
    ELSE IF left.k = "inf" THEN left
    ELSE IF right.k = "inf" THEN right
    ELSE [k |-> "mix", v |-> <<left.v[1], right.v[1], num, den>>]

\* ((samples.len() * target) / source).max(1).  Its slip: rounded up.
output_len_ceil(n, source_rate_hz, target_rate_hz) ==
    Max((n * target_rate_hz + source_rate_hz - 1) \div source_rate_hz, 1)
output_len(n, source_rate_hz, target_rate_hz) ==
    Max((n * target_rate_hz) \div source_rate_hz, 1)

\* source_pos.floor() for source_pos = out_idx * source / target.  Its slip: the
\* position is rounded up.
left_idx_ceil(out_idx, source_rate_hz, target_rate_hz) ==
    (out_idx * source_rate_hz + target_rate_hz - 1) \div target_rate_hz
left_idx(out_idx, source_rate_hz, target_rate_hz) ==
    (out_idx * source_rate_hz) \div target_rate_hz
\* (left_idx + 1).min(max_source_idx).  Its slip: no min.
right_idx_unbounded(left, max_source_idx) == left + 1
right_idx(left, max_source_idx) == Min(left + 1, max_source_idx)

\* resample_linear: the output samples and, for each, the two indices it reads
\* (indices count from 0 as in the source; a read past the end panics)
resample_linear(samples, source_rate_hz, target_rate_hz) ==
    LET n == Len(samples)
        len == output_len(n, source_rate_hz, target_rate_hz)
        Left(i) == left_idx(i - 1, source_rate_hz, target_rate_hz)
        Right(i) == right_idx(Left(i), n - 1)
    IN  IF source_rate_hz = target_rate_hz \/ n <= 1
        THEN [panicked |-> FALSE, output |-> samples, taps |-> [i \in 1..n |-> <<i - 1, i - 1>>]]
        ELSE IF len <= 1
        THEN [panicked |-> FALSE, output |-> <<samples[1]>>, taps |-> <<<<0, 0>>>>]
        ELSE IF \E i \in 1..len : Left(i) > n - 1 \/ Right(i) > n - 1
        THEN [panicked |-> TRUE, output |-> <<>>, taps |-> <<>>]
        ELSE [panicked |-> FALSE,
              output |-> [i \in 1..len |->
                             Interpolate(samples[Left(i) + 1], samples[Right(i) + 1],
                                         ((i - 1) * source_rate_hz) % target_rate_hz,
                                         target_rate_hz)],
              taps |-> [i \in 1..len |-> <<Left(i), Right(i)>>]]

\* a stage is about to execute on a context: the audio of the context, the stage's
\* target rate, and what the context held on entry
AudioCall(stage, samples, rate, target) ==
    [fn |-> stage, phase |-> "called", samples |-> samples, sample_rate_hz |-> rate,
     target_sample_rate_hz |-> target, before |-> [samples |-> samples, sample_rate_hz |-> rate],
     resampled |-> "unset", taps |-> <<>>, result |-> Ok, events |-> 0]

\* source_rate_hz == self.target_sample_rate_hz || context.audio.samples.is_empty().
\* Its slip: only the empty input is passed through.
nothing_to_resample_empty_only(source_rate_hz, target_rate_hz, samples) == samples = <<>>
nothing_to_resample(source_rate_hz, target_rate_hz, samples) ==
    source_rate_hz = target_rate_hz \/ samples = <<>>

\* ResampleStage::execute
ResampleExecute ==
    /\ calc.fn = "resample" /\ calc.phase = "called"
    /\ LET source_rate_hz == calc.sample_rate_hz
           target == calc.target_sample_rate_hz
           resampled == resample_linear(calc.samples, source_rate_hz, target)
       IN  calc' =
              IF source_rate_hz = 0 \/ target = 0
              THEN [calc EXCEPT !.phase = "returned",
                       !.result = internal_error(<<"sample rate must be greater than zero">>)]
              ELSE IF nothing_to_resample(source_rate_hz, target, calc.samples)
              THEN [calc EXCEPT !.phase = "returned", !.resampled = "false"]
              ELSE IF resampled.panicked THEN [calc EXCEPT !.phase = "panicked"]
              ELSE [calc EXCEPT !.phase = "returned", !.samples = resampled.output,
                       !.taps = resampled.taps, !.sample_rate_hz = target,
                       !.resampled = "true"]
    /\ UNCHANGED <<buildVars, sessions, alphabet, request, response, inbox, peer, conn, context,
                   sent, received, runVars>>

\* the samples the resampler is checked on: finite, infinite and NaN
ResampleInputs == SeqsUpTo({Fin(0), Fin(1), Inf(1), NaN}, MaxSamples)

InitResample ==
    /\ Standalone
    /\ calc \in {AudioCall("resample", samples, rate, target) :
                    samples \in ResampleInputs, rate \in Rates, target \in Rates}

NextResample == ResampleExecute

SpecResample == InitResample /\ [][NextResample]_vars

\* AudioPreprocessStage::execute of the orchestration service (fn "audio_clamp") and
\* of the audio crate at the root, which also declares its target rate
\* (fn "audio_preprocess")
PreprocessExecute ==
    /\ calc.fn \in {"audio_clamp", "audio_preprocess"} /\ calc.phase = "called"
    /\ calc' = [calc EXCEPT !.phase = "returned",
                   !.samples = [i \in 1..Len(calc.samples) |-> f32_clamp(calc.samples[i])],
                   !.sample_rate_hz = IF calc.fn = "audio_preprocess"
                                      THEN calc.target_sample_rate_hz ELSE @]
    /\ UNCHANGED <<buildVars, sessions, alphabet, request, response, inbox, peer, conn, context,
                   sent, received, runVars>>

InitClamp ==
    /\ Standalone
    /\ calc \in {AudioCall(stage, samples, rate, target) :
                    stage \in {"audio_clamp", "audio_preprocess"},
                    samples \in SeqsUpTo(F32Values, MaxClampLen), rate \in Rates,
                    target \in Rates}

NextClamp == PreprocessExecute

SpecClamp == InitClamp /\ [][NextClamp]_vars

(***************************************************************************)
(* The in-process fallback aligner: SimpleForcedAligner::align.  Times are *)
(* WordBits wide, as for the whisper adapter.                              *)
(***************************************************************************)
MaxWords == 3

\* start_ms / end_ms of a segment or token, and min_word_duration_ms (u64)
AlignTimes == (0..MaxTick) \cup {U64Max}

\* a token's text after trim(): a word, nothing, or a control token "[_..]"
TranscriptTokens ==
    {[text |-> t, start_ms |-> a, end_ms |-> b] :
        t \in {"word", "", "[_control]"}, a \in AlignTimes, b \in AlignTimes}

WordTiming(start_ms, end_ms) == [start_ms |-> start_ms, end_ms |-> end_ms]

\* the word of one token of a segment with tokens: none for an empty or a control
\* token
TokenWords(token, min_word_duration_ms) ==
    IF token.text # "word" THEN <<>>
    ELSE <<WordTiming(token.start_ms,
                      Max(token.end_ms, saturating_add(token.start_ms, min_word_duration_ms)))>>

\* idx as u64 * each: on overflow the build with overflow checks panics, the build
\* without wraps
Times(idx, each, overflow_checks) ==
    IF idx * each <= U64Max THEN <<idx * each>>
    ELSE IF overflow_checks THEN <<>>
    ELSE <<(idx * each) % (U64Max + 1)>>

\* the words of a segment without tokens whose text splits into n words; <<>> with
\* panicked when a product overflows under overflow checks.  Its slip: each is
\* not raised to min_word_duration_ms.
TextWords_each_unraised(n, seg_start_ms, seg_end_ms, min_word_duration_ms, overflow_checks) ==
    LET total == saturating_sub(seg_end_ms, seg_start_ms)
        each == total \div n
        Word(idx) ==
            LET start == saturating_add(seg_start_ms, Times(idx, each, overflow_checks)[1])
            IN  WordTiming(start,
                           IF idx = 0 THEN saturating_add(start, each)
                           ELSE Max(saturating_add(start, each \div 2),
                                    saturating_add(start, min_word_duration_ms)))
    IN  IF n = 0 THEN [panicked |-> FALSE, words |-> <<>>]
        ELSE IF \E idx \in 0..(n - 1) : Times(idx, each, overflow_checks) = <<>>
        THEN [panicked |-> TRUE, words |-> <<>>]
        ELSE [panicked |-> FALSE, words |-> [i \in 1..n |-> Word(i - 1)]]
TextWords(n, seg_start_ms, seg_end_ms, min_word_duration_ms, overflow_checks) ==
    LET total == saturating_sub(seg_end_ms, seg_start_ms)
        each == Max(total \div n, min_word_duration_ms)
        Word(idx) ==
            LET start == saturating_add(seg_start_ms, Times(idx, each, overflow_checks)[1])
            IN  WordTiming(start,
                           IF idx = 0 THEN saturating_add(start, each)
                           ELSE Max(saturating_add(start, each \div 2),
                                    saturating_add(start, min_word_duration_ms)))
    IN  IF n = 0 THEN [panicked |-> FALSE, words |-> <<>>]
        ELSE IF \E idx \in 0..(n - 1) : Times(idx, each, overflow_checks) = <<>>
        THEN [panicked |-> TRUE, words |-> <<>>]
        ELSE [panicked |-> FALSE, words |-> [i \in 1..n |-> Word(i - 1)]]

\* align is called on an aligner built with min_word_duration_ms
AlignCalls ==
    {[fn |-> "align", phase |-> "aligning", min_word_duration_ms |-> m,
      overflow_checks |-> c, words |-> <<>>] : m \in AlignTimes, c \in BOOLEAN}

\* one token of a segment that has tokens
AlignToken ==
    /\ calc.fn = "align" /\ calc.phase = "aligning"
    /\ \E token \in TranscriptTokens :
          calc' = [calc EXCEPT !.words = TokenWords(token, calc.min_word_duration_ms)]
    /\ UNCHANGED <<buildVars, sessions, alphabet, request, response, inbox, peer, conn, context,
                   sent, received, runVars>>

\* a segment without tokens
AlignText ==
    /\ calc.fn = "align" /\ calc.phase = "aligning"
    /\ \E n \in 0..MaxWords, seg_start_ms \in AlignTimes, seg_end_ms \in AlignTimes :
          LET text == TextWords(n, seg_start_ms, seg_end_ms, calc.min_word_duration_ms,
                                calc.overflow_checks)
          IN  calc' = IF text.panicked THEN [calc EXCEPT !.phase = "panicked", !.words = <<>>]
                      ELSE [calc EXCEPT !.words = text.words]
    /\ UNCHANGED <<buildVars, sessions, alphabet, request, response, inbox, peer, conn, context,
                   sent, received, runVars>>

\* Ok(AlignmentOutput { words })
AlignReturn ==
    /\ calc.fn = "align" /\ calc.phase = "aligning"
    /\ calc' = [calc EXCEPT !.phase = "returned"]
    /\ UNCHANGED <<buildVars, sessions, alphabet, request, response, inbox, peer, conn, context,
                   sent, received, runVars>>

InitAligner == Standalone /\ calc \in AlignCalls

NextAligner == AlignToken \/ AlignText \/ AlignReturn

SpecAligner == InitAligner /\ [][NextAligner]_vars

(***************************************************************************)
(* WhisperTranscriptionAdapter: concurrent transcribe calls on one adapter,*)
(* serialised by runtime: Mutex<WhisperRuntime>.                           *)
(***************************************************************************)
MaxCalls == 3

AdapterCalls == 1..MaxCalls

\* the mutex is held by no call
Unlocked == 0

\* a call unwound by a panic
Panicked == [kind |-> "Panic", msg |-> <<>>]

\* WhisperTranscriptionAdapter::new: runtime unlocked, context None, no call yet
NewAdapter ==
    [fn |-> "adapter", lock |-> Unlocked, poisoned |-> FALSE, context |-> FALSE, loads |-> 0,
     calls |-> [c \in AdapterCalls |-> [pc |-> "idle", result |-> Pending]]]

\* self.runtime.lock() returns once no other call holds the guard.  Its slip: the
\* runtime is not behind the mutex.
Acquirable_always(lock) == TRUE
Acquirable(lock) == lock = Unlocked

\* .lock() yields Err(PoisonError) on a poisoned mutex, mapped to the Internal
\* error.  Its slip: the poisoned guard is recovered and used.
LockPoisoned_recovered(poisoned) == FALSE
LockPoisoned(poisoned) == poisoned

\* runtime.context.is_none().  Its slip: the model is loaded on every call.
NeedsLoad_always(ctx) == TRUE
NeedsLoad(ctx) == ~ctx

\* the call c returns res; the guard `runtime` goes out of scope
AdapterReturn(a, c, res) ==
    [a EXCEPT !.calls[c] = [pc |-> "done", result |-> res], !.lock = Unlocked]

AdapterOnly ==
    UNCHANGED <<buildVars, sessions, alphabet, request, response, inbox, peer, conn, context,
                sent, received, runVars>>

\* transcribe(request) is called
TranscribeCall(c) ==
    /\ calc.fn = "adapter" /\ calc.calls[c].pc = "idle"
    /\ calc' = [calc EXCEPT !.calls[c].pc = "waiting"]
    /\ AdapterOnly

\* let mut runtime = self.runtime.lock().map_err(..)?
LockRuntime(c) ==
    /\ calc.fn = "adapter" /\ calc.calls[c].pc = "waiting"
    /\ Acquirable(calc.lock)
    /\ calc' = IF LockPoisoned(calc.poisoned)
               THEN [calc EXCEPT !.calls[c] =
                        [pc |-> "done",
                         result |-> internal_error(<<"whisper runtime lock poisoned">>)]]
               ELSE [calc EXCEPT !.lock = c,
                        !.calls[c].pc = IF NeedsLoad(calc.context) THEN "loading"
                                        ELSE "creating_state"]
    /\ AdapterOnly

\* WhisperContext::new_with_params(..).map_err(..)?; runtime.context = Some(..)
LoadModel(c) ==
    /\ calc.fn = "adapter" /\ calc.calls[c].pc = "loading"
    /\ \E loaded \in BOOLEAN :
          calc' = IF loaded
                  THEN [calc EXCEPT !.context = TRUE, !.loads = @ + 1,
                                    !.calls[c].pc = "creating_state"]
                  ELSE AdapterReturn(calc, c,
                           external_service_error("whisper", "failed to load model"))
    /\ AdapterOnly

\* whisper_context.create_state().map_err(..)?
CreateState(c) ==
    /\ calc.fn = "adapter" /\ calc.calls[c].pc = "creating_state"
    /\ \E created \in BOOLEAN :
          calc' = IF created THEN [calc EXCEPT !.calls[c].pc = "decoding"]
                  ELSE AdapterReturn(calc, c,
                           external_service_error("whisper", "failed to create state"))
    /\ AdapterOnly

\* state.full(params, &request.audio.samples).map_err(..)?
Decode(c) ==
    /\ calc.fn = "adapter" /\ calc.calls[c].pc = "decoding"
    /\ \E decoded \in BOOLEAN :
          calc' = IF decoded THEN [calc EXCEPT !.calls[c].pc = "converting"]
                  ELSE AdapterReturn(calc, c,
                           external_service_error("whisper", "full decode failed"))
    /\ AdapterOnly

\* the loop over the decoder's segments, for one segment of got tokens without
\* hints: Ok(TranscriptionOutput), or the panic of clamp, which unwinds through
\* the guard and poisons the mutex
ConvertSegments(c) ==
    /\ calc.fn = "adapter" /\ calc.calls[c].pc = "converting"
    /\ \E t0 \in 0..MaxTick, t1 \in 0..MaxTick, got \in 0..1 :
          LET start_ms == unwrap_or(to_ms_10ms_units(t0), 0)
              end_ms == unwrap_or(to_ms_10ms_units(t1), start_ms)
              token == ConvertedToken(start_ms, end_ms, token_span(start_ms, end_ms, got), 0,
                                      <<>>, <<>>, <<>>)
          IN  calc' = IF got > 0 /\ token.panicked
                      THEN [AdapterReturn(calc, c, Panicked) EXCEPT !.poisoned = TRUE]
                      ELSE AdapterReturn(calc, c, Ok)
    /\ AdapterOnly

InitAdapter == Standalone /\ calc = NewAdapter

CallStep(c) ==
    LockRuntime(c) \/ LoadModel(c) \/ CreateState(c) \/ Decode(c) \/ ConvertSegments(c)

NextAdapter ==
    \/ \E c \in AdapterCalls : TranscribeCall(c)
    \/ \E c \in AdapterCalls : LockRuntime(c)
    \/ \E c \in AdapterCalls : LoadModel(c)
    \/ \E c \in AdapterCalls : CreateState(c)
    \/ \E c \in AdapterCalls : Decode(c)
    \/ \E c \in AdapterCalls : ConvertSegments(c)

SpecAdapter == InitAdapter /\ [][NextAdapter]_vars

\* every call that was made is scheduled: a call runs on a thread of the runtime,
\* and a thread blocked in lock() is woken when the guard is dropped
SpecAdapterLive == SpecAdapter /\ \A c \in AdapterCalls : WF_vars(CallStep(c))

(***************************************************************************)
(* PipelinePluginLoader::build_engine of the asr service:                  *)
(* resolve_pipeline_definition, then PipelineEngine::from_definition.      *)
(***************************************************************************)
\* PipelineDefinitionConfig::default
DefaultDefinition ==
    [pre |-> <<"audio_clamp">>, transcription |-> "whisper_transcription",
     post |-> <<"wav2vec2_alignment">>]

\* no definition resolved yet
NoDefinition == [pre |-> <<>>, transcription |-> "", post |-> <<>>]

\* names of pipelines, as written in the configuration: sequences of characters
PipelineNames == SeqsUpTo({" ", "a", "b"}, MaxCodeLen)

\* the definition the configuration file writes under the key k
WrittenUnder(k) ==
    IF k = <<"b">> THEN [pre |-> <<"resample">>, transcription |-> "whisper_transcription",
                         post |-> <<"wav2vec2_alignment">>]
    ELSE IF k = <<"a">> THEN [pre |-> <<>>, transcription |-> "custom", post |-> <<>>]
    ELSE [pre |-> <<"audio_clamp">>, transcription |-> "custom", post |-> <<"custom">>]

\* service.pipeline: None (<<>>), or Some(PipelineConfig {selected, definitions})
PipelineConfigs ==
    {<<>>} \cup
    {<<[selected |-> sel, definitions |-> [k \in keys |-> WrittenUnder(k)]]>> :
        sel \in PipelineNames, keys \in SUBSET {<<"a">>, <<"b">>, <<" ", "a">>}}

\* legacy_default_pipeline
legacy_default_pipeline(alignment_enabled) ==
    IF alignment_enabled THEN DefaultDefinition
    ELSE [DefaultDefinition EXCEPT !.post = SelectSeq(@, LAMBDA n : n # "wav2vec2_alignment")]

\* resolve_pipeline_definition: the definition, or the anyhow error
resolve_pipeline_definition(pipeline, alignment_enabled) ==
    IF pipeline # <<>>
    THEN LET selected == trim(pipeline[1].selected)
         IN  IF selected = <<>>
             THEN [error |-> [kind |-> "anyhow",
                              msg |-> <<"service.pipeline.selected cannot be empty">>],
                   definition |-> NoDefinition]
             ELSE IF selected \in DOMAIN pipeline[1].definitions
             THEN [error |-> Ok, definition |-> pipeline[1].definitions[selected]]
             ELSE [error |-> [kind |-> "anyhow",
                              msg |-> <<"pipeline not found in service.pipeline.definitions">>],
                   definition |-> NoDefinition]
    ELSE [error |-> Ok, definition |-> legacy_default_pipeline(alignment_enabled)]

\* build_engine up to from_definition: the ? on resolve_pipeline_definition
ResolveDefinition ==
    /\ calc.fn = "resolve" /\ build.status = "resolving"
    /\ LET resolved == resolve_pipeline_definition(calc.pipeline, calc.alignment_enabled)
       IN  /\ definition' = resolved.definition
           /\ build' = IF resolved.error = Ok THEN [build EXCEPT !.status = "loading"]
                       ELSE [build EXCEPT !.status = "failed", !.error = resolved.error]
    /\ UNCHANGED <<loader, config, loadCalls, envVars, inbox, peer, conn, context, sent,
                   received, runVars>>

InitResolve ==
    /\ loader = "plugin"
    /\ config = DefaultConfig
    /\ definition = NoDefinition
    /\ build = [status |-> "resolving", next |-> 1, stages |-> <<>>, error |-> Ok]
    /\ loadCalls = <<>>
    /\ alphabet = {}
    /\ calc \in {[fn |-> "resolve", pipeline |-> p, alignment_enabled |-> e] :
                    p \in PipelineConfigs, e \in BOOLEAN}
    /\ IdleSessions({1})

NextResolve == ResolveDefinition \/ LoadStep

SpecResolve == InitResolve /\ [][NextResolve]_vars

(***************************************************************************)
(* The wire form of a transcript: map_transcript_to_proto and              *)
(* map_transcript_from_proto of the orchestration service.                 *)
(***************************************************************************)
LANGUAGE_TAG_CODE_FR == 1
LANGUAGE_TAG_CODE_EN == 2
LANGUAGE_TAG_CODE_AUTO == 3
LANGUAGE_TAG_CODE_OTHER == 4

\* pb::LanguageTag {code, other}; other is an Option
ProtoLanguage(code, other) == [code |-> code, other |-> other]

map_language_to_proto(language) ==
    CASE language.tag = "Fr" -> ProtoLanguage(LANGUAGE_TAG_CODE_FR, <<>>)
      [] language.tag = "En" -> ProtoLanguage(LANGUAGE_TAG_CODE_EN, <<>>)
      [] language.tag = "Auto" -> ProtoLanguage(LANGUAGE_TAG_CODE_AUTO, <<>>)
      [] OTHER -> ProtoLanguage(LANGUAGE_TAG_CODE_OTHER, <<language.code>>)

\* map_language_from_proto: the tag, or the Internal error; language is an Option
map_language_from_proto(language) ==
    IF language = <<>>
    THEN [error |-> internal_error(<<"missing language tag">>), tag |-> NoHint]
    ELSE LET value == unwrap_or(language[1].other, <<>>)
         IN  CASE language[1].code = LANGUAGE_TAG_CODE_FR ->
                     [error |-> Ok, tag |-> LanguageTag("Fr", <<>>)]
               [] language[1].code = LANGUAGE_TAG_CODE_EN ->
                     [error |-> Ok, tag |-> LanguageTag("En", <<>>)]
               [] language[1].code = LANGUAGE_TAG_CODE_AUTO -> [error |-> Ok, tag |-> Auto]
               [] language[1].code = LANGUAGE_TAG_CODE_OTHER ->
                     IF trim(value) = <<>>
                     THEN [error |-> internal_error(
                                        <<"language.other is required when code is OTHER">>),
                           tag |-> NoHint]
                     ELSE [error |-> Ok, tag |-> LanguageTag("Other", value)]
               [] OTHER -> [error |-> internal_error(<<"invalid language tag code">>),
                            tag |-> NoHint]

\* the field-by-field copy of a token and of a segment, in both directions
map_token(token) ==
    [text |-> token.text, start_ms |-> token.start_ms, end_ms |-> token.end_ms,
     confidence |-> token.confidence]
map_segment(segment) ==
    [text |-> segment.text, start_ms |-> segment.start_ms, end_ms |-> segment.end_ms,
     tokens |-> [i \in 1..Len(segment.tokens) |-> map_token(segment.tokens[i])]]

map_transcript_to_proto(transcript) ==
    [language |-> <<map_language_to_proto(transcript.language)>>,
     segments |-> [i \in 1..Len(transcript.segments) |-> map_segment(transcript.segments[i])]]

map_transcript_from_proto(transcript) ==
    LET language == map_language_from_proto(transcript.language)
    IN  IF language.error # Ok THEN [error |-> language.error, transcript |-> <<>>]
        ELSE [error |-> Ok,
              transcript |-> <<[language |-> language.tag,
                                segments |-> [i \in 1..Len(transcript.segments) |->
                                                 map_segment(transcript.segments[i])]]>>]

\* the segments of a transcript: without token, with one token, with two
WireSegments ==
    {[text |-> "hello", start_ms |-> 0, end_ms |-> 100, tokens |-> <<>>],
     [text |-> "hello", start_ms |-> 0, end_ms |-> 100,
      tokens |-> <<[text |-> "hello", start_ms |-> 0, end_ms |-> 100, confidence |-> Fin(1)]>>],
     [text |-> "a b", start_ms |-> 100, end_ms |-> 300,
      tokens |-> <<[text |-> "a", start_ms |-> 100, end_ms |-> 200, confidence |-> Fin(0)],
                   [text |-> "b", start_ms |-> 200, end_ms |-> 300, confidence |-> Fin(1)]>>]}

WireCalls ==
    {[fn |-> "round_trip", phase |-> "called",
      transcript |-> [language |-> l, segments |-> segs],
      proto |-> <<>>, result |-> [error |-> Ok, transcript |-> <<>>]] :
        l \in LanguageHints \ {NoHint}, segs \in SeqsUpTo(WireSegments, MaxSegments)}

ToProto ==
    /\ calc.fn = "round_trip" /\ calc.phase = "called"
    /\ calc' = [calc EXCEPT !.phase = "encoded",
                            !.proto = <<map_transcript_to_proto(calc.transcript)>>]
    /\ AdapterOnly

FromProto ==
    /\ calc.fn = "round_trip" /\ calc.phase = "encoded"
    /\ calc' = [calc EXCEPT !.phase = "returned",
                            !.result = map_transcript_from_proto(calc.proto[1])]
    /\ AdapterOnly

InitWire == Standalone /\ calc \in WireCalls

NextWire == ToProto \/ FromProto

SpecWire == InitWire /\ [][NextWire]_vars

(***************************************************************************)
(* Application::new of the orchestration service: connect_with_retry for   *)
(* the three services, then PipelineEngine::from_definition.               *)
(***************************************************************************)
\* for _ in 0..20
RetryLimit == 20

\* the services Application::new connects to, in its order
Services == <<"audio", "asr", "alignment">>

\* the errors of connect_<svc>_client
ConnectErrors(svc) ==
    {internal_error(<<"invalid endpoint", svc>>),
     external_service_error(svc, "failed to connect: refused"),
     external_service_error(svc, "failed to connect: timed out")}

\* the loop condition of connect_with_retry after n attempts.  Its slip: the range
\* is taken inclusive.
AttemptsLeft_inclusive(n) == n <= RetryLimit
AttemptsLeft(n) == n < RetryLimit

\* anyhow!("failed to connect to {service} service after retries: {}", ..)
RetriesFailed(service, last_error) ==
    [kind |-> "anyhow",
     msg |-> <<"failed to connect to", service, "service after retries:">>
                 \o (IF last_error = <<>> THEN <<"unknown connection error">>
                     ELSE to_string(last_error[1]))]

\* Application::new up to its first connect_with_retry
Connecting ==
    [fn |-> "connect", service |-> 1, attempts |-> [i \in 1..Len(Services) |-> 0],
     clients |-> [i \in 1..Len(Services) |-> FALSE], last_error |-> <<>>]

\* one turn of the loop of connect_with_retry: connect_fn().await; Ok returns the
\* client to Application::new, which goes on to the next service or to the loader
ConnectAttempt ==
    /\ calc.fn = "connect" /\ build.status = "connecting"
    /\ AttemptsLeft(calc.attempts[calc.service])
    /\ \E res \in {Ok} \cup ConnectErrors(Services[calc.service]) :
          LET tried == [calc EXCEPT !.attempts[calc.service] = @ + 1]
          IN IF res = Ok
             THEN /\ calc' = [tried EXCEPT !.clients[calc.service] = TRUE,
                                           !.service = Min(@ + 1, Len(Services)),
                                           !.last_error = <<>>]
                  /\ build' = IF calc.service = Len(Services)
                              THEN [build EXCEPT !.status = "loading"] ELSE build
             ELSE /\ calc' = [tried EXCEPT !.last_error = <<res>>]
                  /\ build' = build
    /\ UNCHANGED <<loader, config, definition, loadCalls, sessions, alphabet, request,
                   response, inbox, peer, conn, context, sent, received, runVars>>

\* the loop of connect_with_retry is over: Err(anyhow!(..)), and the ? of
\* Application::new returns it
RetriesExhausted ==
    /\ calc.fn = "connect" /\ build.status = "connecting"
    /\ ~AttemptsLeft(calc.attempts[calc.service])
    /\ build' = [build EXCEPT !.status = "failed",
                              !.error = RetriesFailed(Services[calc.service], calc.last_error)]
    /\ UNCHANGED <<loader, config, definition, loadCalls, envVars, inbox, peer, conn,
                   context, sent, received, runVars>>

ConnectDefinitions ==
    {[pre |-> <<"audio_transform">>, transcription |-> "asr_transcribe", post |-> p] :
        p \in {<<"alignment_enrich">>, <<"unknown_step">>}}

InitConnect ==
    /\ loader = "grpc"
    /\ config = DefaultConfig
    /\ definition \in ConnectDefinitions
    /\ build = [status |-> "connecting", next |-> 1, stages |-> <<>>, error |-> Ok]
    /\ loadCalls = <<>>
    /\ alphabet = {}
    /\ calc = Connecting
    /\ IdleSessions({1})

NextConnect ==
    \/ ConnectAttempt
    \/ RetriesExhausted
    \/ LoadStep

SpecConnect == InitConnect /\ [][NextConnect]_vars

(***************************************************************************)
(* Properties of construction and execution.                               *)
(***************************************************************************)
\* the step names of the definition, in the order the claims state
ExpectedSteps == definition.pre \o <<definition.transcription>> \o definition.post
\* the step names of the stages a session's run has entered, in entry order
ExecutedSteps(s) == [i \in 1..Len(execLog[s]) |-> build.stages[execLog[s][i].idx]]
IsPrefix(a, b) == Len(a) <= Len(b) /\ \A i \in 1..Len(a) : a[i] = b[i]
RunReturned(s) == run[s].phase = "returned" /\ runNo[s] > 0

\* C1: engine.run on an engine built from a definition enters the stages in the
\* order pre ++ [transcription] ++ post, each once when all succeed, never two at
\* a time, and all on the one context: ctx.events holds the events the stages
\* pushed, in stage order.
C1_StagesRunInDefinitionOrder ==
    \A s \in sessions :
        /\ inStage[s] <= 1
        /\ \A i \in 1..Len(execLog[s]) : execLog[s][i].idx = i
        /\ \A i \in 1..Len(execLog[s]) :
              (i < Len(execLog[s]) \/ run[s].phase # "in_stage") <=> execLog[s][i].result # Pending
        /\ IsPrefix(ExecutedSteps(s), ExpectedSteps)
        /\ (RunReturned(s) /\ run[s].result = Ok) => ExecutedSteps(s) = ExpectedSteps
        /\ context[s].events = appended[s]
        /\ \A i, j \in 1..Len(context[s].events) :
              i < j => context[s].events[i].stage <= context[s].events[j].stage

C1_Witness ==
    \E s \in sessions :
        /\ RunReturned(s) /\ run[s].result = Ok
        /\ Len(execLog[s]) = 3
        /\ definition.pre # <<definition.transcription>>
        /\ definition.post # <<definition.transcription>>
        /\ Len(context[s].events) >= 2
        /\ context[s].events[1].stage < context[s].events[2].stage

\* C2: when stage k returns an error, run returns that error unchanged, no stage
\* after k is entered, no stage is entered twice, and ctx.events holds the events
\* of stages before k plus those stage k pushed before failing.
C2_FirstErrorAbortsRun ==
    \A s \in sessions :
        /\ \A i \in 1..Len(execLog[s]) :
              execLog[s][i].result \notin {Ok, Pending} =>
                  /\ i = Len(execLog[s])
                  /\ run[s].phase = "returned"
                  /\ run[s].result = execLog[s][i].result
        /\ \A i, j \in 1..Len(execLog[s]) : execLog[s][i].idx = execLog[s][j].idx => i = j
        /\ (RunReturned(s) /\ run[s].result # Ok) =>
              /\ Len(execLog[s]) >= 1
              /\ execLog[s][Len(execLog[s])].result = run[s].result
              /\ context[s].events = appended[s]
              /\ \A e \in {context[s].events[i] : i \in 1..Len(context[s].events)} :
                    e.stage <= Len(execLog[s])

C2_Witness ==
    \E s \in sessions :
        /\ RunReturned(s) /\ run[s].result # Ok
        /\ Len(execLog[s]) = 2 /\ Len(build.stages) = 3
        /\ \E i, j \in 1..Len(context[s].events) :
              context[s].events[i].stage = 1 /\ context[s].events[j].stage = 2

\* C9: from_definition calls load_step for pre ++ [transcription] ++ post in that
\* order; an engine exists only if every step resolved; the first step that fails
\* to load ends construction with that Internal error, without an engine and
\* without loading a later step.
C9_ConstructionStopsAtFirstFailedLoad ==
    /\ IsPrefix(loadCalls, ExpectedSteps)
    /\ build.status = "built" =>
          /\ loadCalls = ExpectedSteps
          /\ build.stages = ExpectedSteps
          /\ \A i \in 1..Len(ExpectedSteps) : load_step(loader, ExpectedSteps[i], config) = Ok
    /\ build.status = "failed" =>
          LET k == Len(loadCalls)
          IN /\ k >= 1
             /\ build.error = load_step(loader, ExpectedSteps[k], config)
             /\ build.error.kind = "Internal"
             /\ \A i \in 1..(k - 1) : load_step(loader, ExpectedSteps[i], config) = Ok
             /\ (ExpectedSteps[k] = "unknown_step" =>
                    build.error.msg[1] = (IF loader = "grpc" THEN "unknown pipeline step"
                                          ELSE "unknown pipeline step plugin"))
             /\ build.stages = <<>>
             /\ \A s \in sessions : runNo[s] = 0 /\ execLog[s] = <<>>
    /\ build.status = "loading" => \A s \in sessions : runNo[s] = 0

C9_Witness ==
    /\ build.status = "failed"
    /\ Len(ExpectedSteps) = 3
    /\ Len(loadCalls) = 2
    /\ ExpectedSteps[2] = "unknown_step"

\* a step of the definition whose plugin is switched off
DisabledStep(name) ==
    \/ name = "resample" /\ ~config.resample_enabled
    \/ name = "whisper_transcription" /\ ~config.whisper_runtime
    \/ name = "wav2vec2_alignment" /\ config.wav2vec2 = "absent"

\* C10: a definition that references a disabled plugin, at any position, never
\* yields an engine, and no stage of it ever runs.
C10_DisabledPluginFailsConstruction ==
    (loader = "plugin" /\ \E i \in 1..Len(ExpectedSteps) : DisabledStep(ExpectedSteps[i])) =>
        /\ build.status # "built"
        /\ build.next <= Len(ExpectedSteps)
        /\ \A s \in sessions : runNo[s] = 0 /\ execLog[s] = <<>> /\ ~context[s].present

C10_Witness ==
    /\ loader = "plugin"
    /\ definition.post = <<"resample">>
    /\ ~config.resample_enabled
    /\ Len(loadCalls) = 3
    /\ build.status = "failed"

(***************************************************************************)
(* Properties of the streaming driver.                                     *)
(***************************************************************************)
Last(q) == q[Len(q)]
EventsOf(q) == {q[i] : i \in 1..Len(q)}
\* the driver finishes the handler of the Flush or Stop whose run has returned
FlushHandled(s) == run[s].phase = "returned" /\ run'[s].phase = "idle"
\* once handle_socket has returned, nothing of the session moves any more
Terminal(s) ==
    conn[s] = "closed" =>
        /\ conn'[s] = "closed" /\ sent'[s] = sent[s] /\ received'[s] = received[s]
        /\ context'[s] = context[s] /\ run'[s] = run[s]

\* C3: a Flush or Stop that succeeds sends exactly the events its engine run
\* pushed, each once and in push order, none of them sent before, and leaves
\* ctx.events empty.
C3_FlushDrainsExactlyItsRun ==
    [][\A s \in sessions :
          (FlushHandled(s) /\ run[s].result = Ok /\ conn'[s] = "open") =>
              /\ sent'[s] = sent[s] \o [i \in 1..Len(appended[s]) |->
                                           Sent(FromEvent(appended[s][i]), TRUE)]
              /\ context'[s].events = <<>>
              /\ \A i \in 1..Len(sent[s]) : sent[s][i].msg.event \notin EventsOf(appended[s])
      ]_vars

C3_Witness ==
    \E s \in sessions :
        /\ conn[s] = "open" /\ run[s].phase = "idle" /\ context[s].events = <<>>
        /\ \E i, j \in 1..Len(sent[s]) :
              /\ i < j
              /\ sent[s][i].ok /\ sent[s][j].ok
              /\ sent[s][i].msg.event.run = 1
              /\ sent[s][j].msg.event.run = 2

\* C4: when the run of a Flush or Stop fails after stages pushed events, those
\* events are sent, in push order, before the Error message.
C4_FailedRunStillDrains ==
    [][\A s \in sessions :
          (FlushHandled(s) /\ run[s].result # Ok /\ context[s].events # <<>>) =>
              sent'[s] = sent[s]
                  \o [i \in 1..Len(context[s].events) |->
                         Sent(FromEvent(context[s].events[i]), PeerUp(s))]
                  \o <<Sent(Error(to_string(run[s].result)), PeerUp(s))>>
      ]_vars

\* C5: once the handler of a Stop has completed, the session is Terminal: the
\* connection is closed.
C5_StopTerminatesSession ==
    [][\A s \in sessions :
          (FlushHandled(s) /\ run[s].cause = "stop") => conn'[s] = "closed"
      ]_vars

\* the driver takes a text frame whose envelope parses with a foreign version
TakesVersionMismatch(s) ==
    /\ received'[s] = received[s] + 1
    /\ Parses(Head(inbox[s]))
    /\ Head(inbox[s]).version # PROTOCOL_VERSION
UnsupportedVersion(v) ==
    Error(<<"unsupported protocol version", ToString(v), "expected", "1">>)

\* C6 as stated: a version mismatch yields the Error, performs nothing, and the
\* session stays as it was with the connection open.
C6_VersionMismatchKeepsSession ==
    [][\A s \in sessions :
          TakesVersionMismatch(s) =>
              /\ sent'[s] = Append(sent[s], Sent(UnsupportedVersion(Head(inbox[s]).version),
                                                 PeerUp(s)))
              /\ context'[s] = context[s] /\ run'[s] = run[s]
              /\ conn'[s] = "open"
      ]_vars

\* C6 as amended: a version mismatch yields the Error, performs nothing of the
\* message's action, and the connection is closed: no following message is
\* processed.
C6_VersionMismatchClosesSession ==
    [][\A s \in sessions :
          /\ TakesVersionMismatch(s) =>
                /\ sent'[s] = Append(sent[s], Sent(UnsupportedVersion(Head(inbox[s]).version),
                                                   PeerUp(s)))
                /\ context'[s] = context[s] /\ run'[s] = run[s]
                /\ conn'[s] = "closed"
          /\ Terminal(s)
      ]_vars

C6_Witness ==
    \E s \in sessions :
        /\ conn[s] = "closed"
        /\ context[s].present
        /\ sent[s] # <<>> /\ Last(sent[s]) = Sent(UnsupportedVersion(2), TRUE)
        /\ inbox[s] # <<>> /\ Head(inbox[s]).version = PROTOCOL_VERSION

\* C7: when the run of a Flush or Stop fails, the driver sends one Error message
\* carrying the failure and returns: that message is the last one of the
\* connection and no frame is processed afterwards.
C7_FailedRunEndsWithOneError ==
    [][\A s \in sessions :
          /\ (FlushHandled(s) /\ run[s].result # Ok) =>
                /\ sent'[s] = Append(sent[s], Sent(Error(to_string(run[s].result)), PeerUp(s)))
                /\ conn'[s] = "closed"
          /\ (run[s].phase # "idle" /\ ~FlushHandled(s)) => sent'[s] = sent[s]
          /\ Terminal(s)
      ]_vars

C7_Witness ==
    \E s \in sessions :
        /\ conn[s] = "closed"
        /\ Len(sent[s]) >= 2
        /\ Last(sent[s]).msg.type = "error"
        /\ Last(sent[s]).msg.message[1] = "ExternalService"
        /\ Last(sent[s]).ok
        /\ inbox[s] # <<>>

\* C8: on every context at most one engine.run and at most one stage are in
\* flight, the driver takes no frame of a connection while its run is in
\* progress, and a step of one session leaves the other contexts alone.
C8_OneRunPerContext ==
    [][\A s \in sessions :
          /\ activeRuns'[s] <= 1 /\ inStage'[s] <= 1
          /\ run[s].phase # "idle" => received'[s] = received[s]
          /\ \A t \in sessions \ {s} :
                context'[s] # context[s] => (context'[t] = context[t] /\ run'[t] = run[t])
      ]_vars

C8_Witness ==
    \E s, t \in sessions :
        /\ s # t
        /\ run[s].phase = "in_stage" /\ run[t].phase = "in_stage"
        /\ activeRuns[s] = 1 /\ activeRuns[t] = 1
        /\ inbox[s] # <<>>

(***************************************************************************)
(* Properties of the session states: Unstarted (no context yet) and Active.*)
(***************************************************************************)
\* the driver takes a well-formed frame of the current version whose type is in types
TakesFrame(s, types) ==
    /\ received'[s] = received[s] + 1
    /\ Accepted(Head(inbox[s]))
    /\ Head(inbox[s]).type \in types
\* the send_message calls the step adds for session s
NewlySent(s) == SubSeq(sent'[s], Len(sent[s]) + 1, Len(sent'[s]))
StartFirst == Error(<<"start must be sent first">>)

\* C11: before any Start, an AudioFrame, Flush or Stop is answered by the Error
\* "start must be sent first"; no context is created, no sample is stored and the
\* engine is not run.
C11_UnstartedRejectsAudioFlushStop ==
    [][\A s \in sessions :
          (TakesFrame(s, {"audio_frame", "flush", "stop"}) /\ ~context[s].present) =>
              /\ sent'[s] = Append(sent[s], Sent(StartFirst, PeerUp(s)))
              /\ context'[s] = NoContext
              /\ run'[s] = NoRun /\ runNo'[s] = 0 /\ execLog'[s] = <<>>
      ]_vars

C11_Witness ==
    \E s \in sessions :
        /\ ~context[s].present /\ runNo[s] = 0
        /\ received[s] = 2
        /\ Len(sent[s]) = 2 /\ sent[s][1].msg = Pong /\ sent[s][2] = Sent(StartFirst, TRUE)

\* C12: on an Active session an AudioFrame appends its samples after the ones the
\* buffer holds, frames being taken in the order the client sent them; the session
\* stays Active, no message is sent and no stage runs.
C12_AudioFrameAppendsInOrder ==
    [][\A s \in sessions :
          (TakesFrame(s, {"audio_frame"}) /\ context[s].present) =>
              /\ context'[s] = [context[s] EXCEPT
                                   !.samples = context[s].samples \o Head(inbox[s]).pcm_f32]
              /\ inbox'[s] = Tail(inbox[s])
              /\ sent'[s] = sent[s] /\ conn'[s] = "open"
              /\ run'[s] = run[s] /\ runNo'[s] = runNo[s] /\ inStage'[s] = 0
      ]_vars

C12_Witness ==
    \E s \in sessions :
        /\ context[s].present /\ context[s].samples = <<2, 1>>
        /\ conn[s] = "open" /\ Len(sent[s]) = 1 /\ runNo[s] = 0

\* C13: a connection has one context for its whole life: a Start received on an
\* Active session leaves the context, its id and its accumulated samples, in place.
C13_OneContextPerConnection ==
    [][\A s \in sessions :
          (TakesFrame(s, {"start"}) /\ context[s].present) =>
              /\ context'[s].session_id = context[s].session_id
              /\ context'[s].samples = context[s].samples
      ]_vars

\* C14: a Start in Unstarted creates a context with no samples, no events and no
\* transcript, whose id is the provided one if any and a fresh one otherwise, and
\* sends exactly one Ready carrying that id.
C14_StartCreatesContextAndReady ==
    [][\A s \in sessions :
          (TakesFrame(s, {"start"}) /\ ~context[s].present) =>
              LET given == Head(inbox[s]).session_id
                  ctx == context'[s]
              IN /\ ctx.present
                 /\ ctx.samples = <<>> /\ ctx.events = <<>> /\ ctx.transcript = Absent
                 /\ given # NoId => ctx.session_id = given
                 /\ given = NoId =>
                       /\ ctx.session_id[1] = "uuid"
                       /\ \A t \in sessions : context[t].session_id # ctx.session_id
                 /\ NewlySent(s)[1] = Sent(Ready(ctx.session_id), PeerUp(s))
                 /\ \A i \in 2..Len(NewlySent(s)) : NewlySent(s)[i].msg.type # "ready"
                 /\ PeerUp(s) => (Len(NewlySent(s)) = 1 /\ conn'[s] = "open")
      ]_vars

C14_Witness ==
    \E s \in sessions :
        /\ context[s].present /\ context[s].session_id = Id("it", 2)
        /\ received[s] = 1 /\ conn[s] = "open"
        /\ sent[s] = <<Sent(Ready(Id("it", 2)), TRUE)>>

(***************************************************************************)
(* Properties of the one-shot command.                                     *)
(***************************************************************************)
\* a request one of the validation gates refuses
InvalidRequest(req) ==
    /\ req.present
    /\ \/ req.samples = <<>>
       \/ req.sample_rate_hz # <<>> /\ ~ValidRate(req.sample_rate_hz[1])
       \/ req.session_id # NoId /\ TextLen(req.session_id) \notin 1..64
       \/ req.language_hint # NoId /\ TextLen(req.language_hint) \notin 1..16

\* C15: a request with empty samples, or a sample rate outside 8000..192000, or a
\* session id outside 1..64 characters, or a language hint outside 1..16 characters
\* is answered by a Validation error and the engine is never run for it.
C15_InvalidRequestNeverRuns ==
    \A s \in sessions :
        InvalidRequest(request[s]) =>
            /\ runNo[s] = 0
            /\ response[s].status = "err" /\ response[s].error.kind = "Validation"

\* the words of the last AlignmentUpdate among events q, or none
RECURSIVE LastAlignmentUpdate(_)
LastAlignmentUpdate(q) ==
    IF q = <<>> THEN Absent
    ELSE IF q[Len(q)].kind = "AlignmentUpdate" THEN q[Len(q)].payload
    ELSE LastAlignmentUpdate(SubSeq(q, 1, Len(q) - 1))

\* C16: the aligned words of a response are ctx.aligned_words when not empty, and
\* otherwise the words of the last AlignmentUpdate event of ctx.events, if any.
C16_AlignedWordsPreferContextThenLastEvent ==
    \A s \in sessions :
        response[s].status = "ok" =>
            response[s].aligned_words =
                (IF context[s].aligned_words # Absent THEN context[s].aligned_words
                 ELSE LastAlignmentUpdate(context[s].events))

NoTranscript ==
    Failed(ApplicationError("Internal", <<"transcription pipeline returned no transcript">>))

\* C17: when the run succeeds and no stage set ctx.transcript, transcribe fails with
\* Internal "transcription pipeline returned no transcript"; when the run fails,
\* transcribe fails with the mapped error of the stage; neither returns a response.
C17_NoTranscriptOrFailedRunIsAnError ==
    \A s \in sessions :
        (response[s].status # "none" /\ runNo[s] = 1) =>
            /\ (run[s].result = Ok /\ context[s].transcript = Absent) =>
                   response[s] = NoTranscript
            /\ run[s].result # Ok => response[s] = Failed(FromDomainError(run[s].result))

C17_Witness ==
    \E s \in sessions :
        /\ run[s].phase = "returned" /\ run[s].result = Ok /\ Len(execLog[s]) = 1
        /\ context[s].transcript = Absent
        /\ response[s] = NoTranscript

\* C18: a response to a request that supplied a session id carries that id, also
\* when every stage replaced ctx.session_id by the id its service returned.
C18_ResponseKeepsSuppliedSessionId ==
    \A s \in sessions :
        (response[s].status = "ok" /\ request[s].session_id # NoId) =>
            response[s].session_id = request[s].session_id

C18_Witness ==
    \E s \in sessions :
        /\ loader = "grpc" /\ Len(execLog[s]) = 3
        /\ response[s].status = "ok"
        /\ request[s].session_id = Id("sid", 64)
        /\ response[s].session_id = Id("sid", 64)

\* the execute call of the stage session s is in returns in this step
StageReturns(s) == run[s].phase = "in_stage" /\ execLog'[s] # execLog[s]
RunningStage(s) == build.stages[run[s].idx]
StageResult(s) == execLog'[s][Len(execLog[s])].result
EventsPushed(s) ==
    SubSeq(context'[s].events, Len(context[s].events) + 1, Len(context'[s].events))

\* C19: the alignment stage fails with Internal "no transcript available" on a
\* context without transcript, pushing no event and leaving ctx.aligned_words; with
\* a transcript and a succeeding aligner it stores the aligner's words and pushes
\* exactly one AlignmentUpdate carrying the same words.
C19_AlignmentNeedsTranscript ==
    [][\A s \in sessions :
          (StageReturns(s) /\ RunningStage(s) \in {"wav2vec2_alignment", "alignment_enrich"}) =>
              /\ context[s].transcript = Absent =>
                    /\ StageResult(s) = internal_error(<<"no transcript available">>)
                    /\ EventsPushed(s) = <<>>
                    /\ context'[s].aligned_words = context[s].aligned_words
              /\ (context[s].transcript # Absent /\ StageResult(s) = Ok) =>
                    /\ Len(EventsPushed(s)) = 1
                    /\ EventsPushed(s)[1].kind = "AlignmentUpdate"
                    /\ EventsPushed(s)[1].payload = context'[s].aligned_words
                    /\ context'[s].aligned_words \in {Absent, Produced(runNo[s], run[s].idx)}
      ]_vars

C19_Witness ==
    \E s \in sessions :
        /\ run[s].phase = "returned"
        /\ run[s].result = internal_error(<<"no transcript available">>)
        /\ Len(execLog[s]) = 3
        /\ context[s].aligned_words = Absent
        /\ \A i \in 1..Len(context[s].events) : context[s].events[i].kind # "AlignmentUpdate"

\* C20: when the transcription stage succeeds, ctx.transcript is present and the
\* stage has pushed exactly one FinalTranscript event carrying that transcript; when
\* it fails, ctx.transcript and ctx.events are as before.
C20_TranscriptionSetsTranscriptAndEvent ==
    [][\A s \in sessions :
          (StageReturns(s) /\ RunningStage(s) \in {"whisper_transcription", "asr_transcribe"}) =>
              /\ StageResult(s) = Ok =>
                    /\ context'[s].transcript # Absent
                    /\ Len(EventsPushed(s)) = 1
                    /\ EventsPushed(s)[1].kind = "FinalTranscript"
                    /\ EventsPushed(s)[1].payload = context'[s].transcript
              /\ StageResult(s) # Ok =>
                    /\ context'[s].transcript = context[s].transcript
                    /\ context'[s].events = context[s].events
      ]_vars

C20_Witness ==
    \E s \in sessions :
        /\ Len(execLog[s]) >= 2 /\ execLog[s][2].result = Ok
        /\ build.stages[2] = "asr_transcribe"
        /\ context[s].transcript = Produced(1, 2)
        /\ \E i \in 1..Len(context[s].events) :
              /\ context[s].events[i].kind = "FinalTranscript"
              /\ context[s].events[i].payload = Produced(1, 2)

\* the service a remote stage calls
ServiceOf(name) ==
    CASE name = "audio_transform" -> "audio"
      [] name = "asr_transcribe" -> "asr"
      [] name = "alignment_enrich" -> "alignment"
      [] OTHER -> ""

IsTimeout(res) == res.kind = "ExternalService" /\ res.msg[2] = "gRPC request timed out"

\* C22: a stage that returns the error of an elapsed request timeout is a remote
\* stage and the error is ExternalService naming its service (audio, asr or
\* alignment); the engine returns that error without entering a later stage, and
\* the events pushed by the earlier stages are still in ctx.events.
C22_TimeoutAbortsRunKeepingEvents ==
    [][\A s \in sessions :
          (StageReturns(s) /\ IsTimeout(StageResult(s))) =>
              /\ ServiceOf(RunningStage(s)) \in {"audio", "asr", "alignment"}
              /\ StageResult(s) = external_service_error(ServiceOf(RunningStage(s)),
                                                         "gRPC request timed out")
              /\ run'[s].phase = "returned" /\ run'[s].result = StageResult(s)
              /\ Len(execLog'[s]) = Len(execLog[s])
              /\ context'[s].events = context[s].events
      ]_vars

C22_Witness ==
    \E s \in sessions :
        /\ run[s].phase = "returned"
        /\ run[s].result = external_service_error("alignment", "gRPC request timed out")
        /\ Len(execLog[s]) = 2 /\ Len(build.stages) = 3
        /\ Len(context[s].events) = 1 /\ context[s].events[1].kind = "FinalTranscript"

(***************************************************************************)
(* Properties of the whisper adapter.                                      *)
(***************************************************************************)
\* C21: every token of a segment the adapter converts starts within the segment
\* and ends after its start, at most at the later of the segment's end and one
\* millisecond after the token's start.
C21_TokenTimesWithinSegment ==
    calc.fn = "whisper" =>
        \A i \in 1..Len(calc.segment.tokens) :
            LET seg == calc.segment
                token == seg.tokens[i]
            IN  /\ seg.start_ms <= token.start_ms
                /\ token.start_ms < token.end_ms
                /\ token.end_ms <= Max(seg.end_ms, token.start_ms + 1)

C21_Witness ==
    /\ calc.fn = "whisper" /\ calc.phase = "tokens"
    /\ calc.segment.start_ms = calc.segment.end_ms /\ calc.segment.start_ms > 0
    /\ Len(calc.segment.tokens) = 2
    /\ calc.segment.tokens[2].end_ms = calc.segment.end_ms + 1

\* C30: the decoder's language comes from the hint alone: "fr", "en" or the trimmed
\* lower-cased code of Other, and none for Auto or for no hint, whatever language
\* is configured; the transcript's language is the hint, or Auto without hint.
C30_DecoderLanguageFromHintOnly ==
    (calc.fn = "whisper" /\ calc.phase # "called") =>
        /\ calc.decode_language =
              (IF calc.hint.tag = "Fr" THEN <<<<"f", "r">>>>
               ELSE IF calc.hint.tag = "En" THEN <<<<"e", "n">>>>
               ELSE IF calc.hint.tag = "Other" THEN <<to_ascii_lowercase(trim(calc.hint.code))>>
               ELSE <<>>)
        /\ calc.phase = "returned" =>
              calc.language = (IF calc.hint = NoHint THEN Auto ELSE calc.hint)

(***************************************************************************)
(* Properties of the audio stages.                                         *)
(***************************************************************************)
\* the resample stage has run on more than one sample, between two different rates
Resampled ==
    /\ calc.fn = "resample" /\ calc.phase # "called"
    /\ Len(calc.before.samples) > 1
    /\ calc.before.sample_rate_hz # calc.target_sample_rate_hz
    /\ calc.before.sample_rate_hz > 0 /\ calc.target_sample_rate_hz > 0

\* floor(N * target / source), at least 1
ExpectedLen ==
    Max(1, (Len(calc.before.samples) * calc.target_sample_rate_hz)
               \div calc.before.sample_rate_hz)

\* C24 as claimed: after resampling N > 1 samples between different positive rates
\* the rate is the target, the length is max(1, floor(N * target / source)), the
\* first output equals the first input and audio.resampled is true.
C24_ResampleLengthRateAndFirst ==
    Resampled =>
        /\ calc.phase = "returned" /\ calc.result = Ok
        /\ calc.sample_rate_hz = calc.target_sample_rate_hz
        /\ Len(calc.samples) = ExpectedLen
        /\ calc.samples[1] = calc.before.samples[1]
        /\ calc.resampled = "true"

\* C24 amended: rate, length and extension as claimed; the first output equals the
\* first input unless more than one sample is produced and the second input is
\* infinite or NaN, in which case the first output is NaN.
C24_ResampleFirstUnlessNeighbourNotFinite ==
    Resampled =>
        /\ calc.phase = "returned" /\ calc.result = Ok
        /\ calc.sample_rate_hz = calc.target_sample_rate_hz
        /\ Len(calc.samples) = ExpectedLen
        /\ calc.samples[1] =
              (IF ExpectedLen > 1 /\ calc.before.samples[2].k \in {"inf", "nan"}
               THEN NaN ELSE calc.before.samples[1])
        /\ calc.resampled = "true"

C24_Witness ==
    /\ Resampled /\ calc.phase = "returned"
    /\ calc.before.sample_rate_hz = 3 /\ calc.target_sample_rate_hz = 2
    /\ calc.before.samples = <<Fin(1), Fin(0), Fin(1), Fin(0)>>
    /\ Len(calc.samples) = 2 /\ calc.samples[1] = Fin(1)

\* the two indices the last output sample was interpolated from
LastTaps == calc.taps[Len(calc.taps)]

\* C25 as claimed: the last output is interpolated from the last two inputs (both
\* of its indices are N-2 or N-1), for every N and every pair of rates.
C25_LastOutputFromLastTwoInputs ==
    Resampled =>
        LET n == Len(calc.before.samples)
        IN  /\ calc.phase = "returned"
            /\ LastTaps[1] \in {n - 2, n - 1} /\ LastTaps[2] \in {n - 2, n - 1}

\* C25 amended: the last output is interpolated from inputs l and min(l + 1, N - 1)
\* with l = floor((L - 1) * source / target), where N - 1 - 2 * source / target < l
\* <= N - 1; these are the last two inputs when target > source, and input 0 alone
\* when a single sample is produced; no read is out of range.
C25_LastOutputFromScaledPosition ==
    Resampled =>
        LET n == Len(calc.before.samples)
            source == calc.before.sample_rate_hz
            target == calc.target_sample_rate_hz
            l == ((ExpectedLen - 1) * source) \div target
        IN  IF calc.phase # "returned" THEN FALSE
            ELSE IF ExpectedLen = 1 THEN LastTaps = <<0, 0>>
            ELSE /\ LastTaps = <<l, Min(l + 1, n - 1)>>
                 /\ l <= n - 1
                 /\ l * target > (n - 1) * target - 2 * source
                 /\ target > source => l >= n - 2

C25_Witness ==
    /\ Resampled /\ calc.phase = "returned"
    /\ Len(calc.before.samples) = 4
    /\ calc.before.sample_rate_hz = 3 /\ calc.target_sample_rate_hz = 2
    /\ LastTaps = <<1, 2>>

\* C26 as claimed: with source rate equal to target rate the stage leaves samples
\* and rate and sets audio.resampled to false; with at most one sample it leaves
\* the samples whatever the rates.
C26_SameRateOrShortInputIsIdentity ==
    (calc.fn = "resample" /\ calc.phase # "called") =>
        /\ calc.before.sample_rate_hz = calc.target_sample_rate_hz =>
              /\ calc.samples = calc.before.samples
              /\ calc.sample_rate_hz = calc.before.sample_rate_hz
              /\ calc.resampled = "false"
        /\ Len(calc.before.samples) <= 1 => calc.samples = calc.before.samples

\* C26 amended: as claimed when the equal rates are not zero; when a rate is zero
\* the stage fails with Internal "sample rate must be greater than zero", changes
\* nothing and sets no extension.
C26_SameNonZeroRateOrShortInputIsIdentity ==
    (calc.fn = "resample" /\ calc.phase # "called") =>
        /\ (calc.before.sample_rate_hz = calc.target_sample_rate_hz
                /\ calc.target_sample_rate_hz > 0) =>
              /\ calc.result = Ok
              /\ calc.samples = calc.before.samples
              /\ calc.sample_rate_hz = calc.before.sample_rate_hz
              /\ calc.resampled = "false"
        /\ (calc.before.sample_rate_hz = 0 \/ calc.target_sample_rate_hz = 0) =>
              /\ calc.result = internal_error(<<"sample rate must be greater than zero">>)
              /\ calc.samples = calc.before.samples
              /\ calc.sample_rate_hz = calc.before.sample_rate_hz
              /\ calc.resampled = "unset"
        /\ Len(calc.before.samples) <= 1 => calc.samples = calc.before.samples

C26_Witness ==
    /\ calc.fn = "resample" /\ calc.phase = "returned"
    /\ calc.before.sample_rate_hz = 2 /\ calc.target_sample_rate_hz = 2
    /\ Len(calc.samples) = 2 /\ calc.resampled = "false"

\* C27: after the clamp stage every sample is within [-1, 1], samples that were
\* within the range are unchanged, the number of samples and the sample rate are
\* unchanged, the stage has not failed and has pushed no event.
C27_ClampKeepsCountRateAndRange ==
    (calc.fn \in {"audio_clamp", "audio_preprocess"} /\ calc.phase # "called") =>
        /\ calc.result = Ok /\ calc.events = 0
        /\ Len(calc.samples) = Len(calc.before.samples)
        /\ calc.sample_rate_hz = calc.before.sample_rate_hz
        /\ \A i \in 1..Len(calc.samples) :
              /\ calc.samples[i].k = "fin" /\ calc.samples[i].v[1] \in -1..1
              /\ (calc.before.samples[i].k = "fin" /\ calc.before.samples[i].v[1] \in -1..1)
                     => calc.samples[i] = calc.before.samples[i]

\* C28: every WordTiming the fallback aligner produces ends after it starts.
C28_WordsEndAfterStart ==
    calc.fn = "align" =>
        \A i \in 1..Len(calc.words) : calc.words[i].end_ms > calc.words[i].start_ms

(***************************************************************************)
(* Properties of the construction of the orchestration application.        *)
(***************************************************************************)
\* C23: connect_with_retry makes at most 20 attempts per service; once an attempt
\* succeeded no further attempt is made for that service; after 20 failures in a
\* row the construction fails with the error that carries the last connection
\* error, nothing has been loaded and no engine is built, then or later.
C23_ConnectStopsAfterTwentyAttempts ==
    /\ [](calc.fn = "connect" =>
            LET i == calc.service
                connected == \A j \in 1..Len(Services) : calc.clients[j]
            IN  /\ \A j \in 1..Len(Services) : calc.attempts[j] <= 20
                /\ \A j \in 1..Len(Services) : calc.clients[j] => calc.attempts[j] >= 1
                /\ (build.status = "failed" /\ ~connected) =>
                      /\ calc.attempts[i] = 20 /\ ~calc.clients[i]
                      /\ calc.last_error # <<>>
                      /\ calc.last_error[1] \in ConnectErrors(Services[i])
                      /\ build.error.kind = "anyhow"
                      /\ build.error.msg =
                            <<"failed to connect to", Services[i], "service after retries:">>
                                \o to_string(calc.last_error[1])
                /\ ~connected => (build.status # "built" /\ build.stages = <<>>
                                      /\ loadCalls = <<>>))
    /\ [][calc.fn = "connect" =>
             /\ \A j \in 1..Len(Services) :
                   calc.clients[j] => (calc'.clients[j] /\ calc'.attempts[j] = calc.attempts[j])
             /\ build.status = "failed" => (build' = build /\ calc' = calc)
         ]_vars

C23_Witness ==
    /\ calc.fn = "connect" /\ build.status = "failed"
    /\ calc.attempts = <<3, 20, 0>> /\ calc.clients = <<TRUE, FALSE, FALSE>>
    /\ build.error = RetriesFailed("asr", <<external_service_error("asr", "failed to connect: timed out")>>)

(***************************************************************************)
(* Properties of the sample buffer of a streaming session.                 *)
(***************************************************************************)
\* C29: on an Active session no step of the driver other than a Start shortens or
\* empties ctx.audio.samples: a Flush starts the engine on the whole buffer, its
\* completion leaves the buffer as the stages left it, and an AudioFrame received
\* afterwards appends to it.
C29_DriverKeepsSamples ==
    [][\A s \in sessions :
          context[s].present =>
              /\ context'[s].present
              /\ (~StageReturns(s) /\ ~TakesFrame(s, {"start"})) =>
                    IsPrefix(context[s].samples, context'[s].samples)
              /\ TakesFrame(s, {"flush", "stop"}) =>
                    /\ context'[s].samples = context[s].samples
                    /\ run'[s].phase = "in_stage" /\ runNo'[s] = runNo[s] + 1
              /\ (run[s].phase = "returned" /\ run'[s].phase = "idle") =>
                    context'[s].samples = context[s].samples
              /\ (TakesFrame(s, {"audio_frame"}) /\ runNo[s] > 0) =>
                    context'[s].samples = context[s].samples \o Head(inbox[s]).pcm_f32
      ]_vars

C29_Witness ==
    \E s \in sessions :
        /\ runNo[s] = 2 /\ run[s].phase = "in_stage" /\ run[s].idx = 1
        /\ context[s].samples = <<1, 2>>

(***************************************************************************)
(* Properties of the segments of the whisper adapter.                      *)
(***************************************************************************)
\* C31: every segment the whisper adapter pushes has start_ms <= end_ms, each of
\* its tokens lies within the segment's interval, and its tokens are
\* non-decreasing in start_ms.
C31_SegmentsWellFormed ==
    (calc.fn = "whisper" /\ calc.phase = "tokens"
         /\ Len(calc.segment.tokens) = calc.segment.got) =>
        LET seg == calc.segment
        IN  /\ seg.start_ms <= seg.end_ms
            /\ \A i \in 1..Len(seg.tokens) :
                  /\ seg.start_ms <= seg.tokens[i].start_ms
                  /\ seg.tokens[i].end_ms <= seg.end_ms
            /\ \A i \in 1..(Len(seg.tokens) - 1) :
                  seg.tokens[i].start_ms <= seg.tokens[i + 1].start_ms

(***************************************************************************)
(* Properties of the whisper adapter's runtime mutex.                      *)
(***************************************************************************)
\* the calls that are past lock() and have not returned
InsideRuntime == {c \in AdapterCalls : calc.calls[c].pc \in
                     {"loading", "creating_state", "decoding", "converting"}}

\* C32: at most one transcribe call of an adapter is inside model loading or
\* decoding at any instant; the lock is held by exactly that call and is free once
\* it has returned, with Ok or with an error; every waiting call eventually
\* proceeds.
C32_OneCallInsideRuntime ==
    /\ [](calc.fn = "adapter" =>
            /\ Cardinality(InsideRuntime) <= 1
            /\ \A c \in AdapterCalls : (calc.lock = c) <=> (c \in InsideRuntime)
            /\ InsideRuntime = {} => calc.lock = Unlocked)
    /\ \A c \in AdapterCalls :
          (calc.fn = "adapter" /\ calc.calls[c].pc = "waiting")
              ~> (calc.calls[c].pc # "waiting")

C32_Witness ==
    /\ calc.fn = "adapter"
    /\ calc.calls[1].pc = "done" /\ calc.calls[1].result.kind = "ExternalService"
    /\ calc.calls[2].pc = "decoding" /\ calc.lock = 2
    /\ calc.calls[3].pc = "waiting"

\* the call c leaves lock() in this step, and the call c returns in this step
PassesLock(c) == calc.calls[c].pc = "waiting" /\ calc'.calls[c].pc # "waiting"
Returns(c) == calc.calls[c].pc # "done" /\ calc'.calls[c].pc = "done"

\* C33: the mutex is poisoned exactly when a call panicked while holding it; from
\* then on every call returns Internal "whisper runtime lock poisoned" from lock(),
\* without loading or decoding; a call that returns an error leaves the mutex
\* unpoisoned.
C33_PanicPoisonsErrorDoesNot ==
    /\ [](calc.fn = "adapter" =>
            (calc.poisoned <=> \E c \in AdapterCalls : calc.calls[c].result = Panicked))
    /\ [][calc.fn = "adapter" =>
             \A c \in AdapterCalls :
                 /\ (PassesLock(c) /\ calc.poisoned) =>
                       /\ calc'.calls[c] =
                             [pc |-> "done",
                              result |-> internal_error(<<"whisper runtime lock poisoned">>)]
                       /\ calc'.lock = calc.lock /\ calc'.loads = calc.loads
                 /\ (PassesLock(c) /\ ~calc.poisoned) => calc'.lock = c
                 /\ (Returns(c) /\ calc'.calls[c].result # Panicked) =>
                       calc'.poisoned = calc.poisoned
         ]_vars

C33_Witness ==
    /\ calc.fn = "adapter" /\ calc.poisoned
    /\ calc.calls[1].result = external_service_error("whisper", "full decode failed")
    /\ calc.calls[2].result = Panicked
    /\ calc.calls[3].result = internal_error(<<"whisper runtime lock poisoned">>)

\* C39: the model context of an adapter is loaded successfully at most once: a call
\* that finds it loaded goes on without loading; a call that finds it missing
\* attempts the load; a failed load returns ExternalService "whisper" and leaves
\* the runtime without context.
C39_ModelLoadedAtMostOnce ==
    /\ [](calc.fn = "adapter" =>
            /\ calc.loads <= 1
            /\ calc.context <=> calc.loads = 1)
    /\ [][calc.fn = "adapter" =>
             \A c \in AdapterCalls :
                 /\ (PassesLock(c) /\ ~calc.poisoned) =>
                       calc'.calls[c].pc = (IF calc.context THEN "creating_state" ELSE "loading")
                 /\ (calc.calls[c].pc = "loading" /\ calc'.calls[c].pc # "loading") =>
                       /\ ~calc.context
                       /\ IF calc'.calls[c].pc = "done"
                          THEN /\ calc'.calls[c].result.kind = "ExternalService"
                               /\ calc'.calls[c].result.msg[1] = "whisper"
                               /\ ~calc'.context /\ calc'.loads = calc.loads
                          ELSE calc'.context /\ calc'.loads = calc.loads + 1
                 /\ calc.calls[c].pc # "loading" =>
                       (calc'.context = calc.context \/ calc'.calls[c].pc = calc.calls[c].pc)
         ]_vars

C39_Witness ==
    /\ calc.fn = "adapter" /\ calc.loads = 1
    /\ calc.calls[1].result = external_service_error("whisper", "failed to load model")
    /\ calc.calls[2].result = Ok
    /\ calc.calls[3].pc = "creating_state"

(***************************************************************************)
(* Properties of the frames that leave the session alone.                  *)
(***************************************************************************)
\* the driver takes a websocket frame of kind k
TakesWs(s, k) == received'[s] = received[s] + 1 /\ Head(inbox[s]).ws = k

\* C34: a JSON ping of version 1 or a transport ping, in Unstarted or Active, is
\* answered by exactly one Pong, and a binary frame by exactly one Error "binary
\* frames are not supported; use JSON audio_frame"; the context and the run state
\* are unchanged and the connection stays open (for the JSON ping: when the Pong
\* could be sent).
C34_PingAndBinaryLeaveSession ==
    [][\A s \in sessions :
          /\ (TakesFrame(s, {"ping"}) \/ TakesWs(s, "ping")) =>
                /\ Len(NewlySent(s)) >= 1
                /\ NewlySent(s)[1].msg = ServerMessage("pong", NoId, NoEvent, <<>>)
                /\ NewlySent(s)[1].ok = PeerUp(s)
                /\ \A i \in 2..Len(NewlySent(s)) : NewlySent(s)[i].msg.type # "pong"
                /\ (PeerUp(s) \/ TakesWs(s, "ping")) =>
                      (Len(NewlySent(s)) = 1 /\ conn'[s] = "open")
                /\ context'[s] = context[s] /\ run'[s] = run[s] /\ runNo'[s] = runNo[s]
          /\ TakesWs(s, "binary") =>
                /\ NewlySent(s) =
                      <<Sent(ServerMessage("error", NoId, NoEvent,
                             <<"binary frames are not supported; use JSON audio_frame">>),
                             PeerUp(s))>>
                /\ conn'[s] = "open"
                /\ context'[s] = context[s] /\ run'[s] = run[s] /\ runNo'[s] = runNo[s]
      ]_vars

C34_Witness ==
    \E s \in sessions :
        /\ context[s].present /\ conn[s] = "open" /\ received[s] = 3
        /\ Len(sent[s]) = 3
        /\ sent[s][2].msg.type = "pong" /\ sent[s][2].ok
        /\ sent[s][3].msg.type = "error" /\ sent[s][3].ok

(***************************************************************************)
(* Properties of the resolution of the pipeline definition.                *)
(***************************************************************************)
\* C35: without `pipeline` block the default definition is resolved, without
\* wav2vec2_alignment in post when alignment.enabled is false; with a `pipeline`
\* block the definition written under the key pipeline.selected is used as
\* written, and an empty selected or one that keys no definition makes the
\* construction of the engine fail.
C35_ResolvedDefinition ==
    (calc.fn = "resolve" /\ build.status # "resolving") =>
        IF calc.pipeline = <<>>
        THEN /\ definition.pre = <<"audio_clamp">>
             /\ definition.transcription = "whisper_transcription"
             /\ definition.post = (IF calc.alignment_enabled THEN <<"wav2vec2_alignment">>
                                   ELSE <<>>)
        ELSE LET selected == calc.pipeline[1].selected
                 definitions == calc.pipeline[1].definitions
             IN  IF selected = <<>> \/ selected \notin DOMAIN definitions
                 THEN build.status = "failed" /\ build.stages = <<>> /\ loadCalls = <<>>
                 ELSE definition = definitions[selected]

(***************************************************************************)
(* Properties of the wire form of a transcript.                            *)
(***************************************************************************)
\* C36: for a transcript whose language is Fr, En, Auto or Other(s), s not empty,
\* the wire form carries the code 1, 2, 3 or 4 with `other` set exactly for code 4,
\* and mapping it back succeeds and returns an equal transcript.
C36_TranscriptRoundTrips ==
    (calc.fn = "round_trip" /\ calc.phase # "called"
         /\ (calc.transcript.language.tag = "Other" => calc.transcript.language.code # <<>>)) =>
        LET tag == calc.transcript.language.tag
            wire == calc.proto[1].language[1]
        IN  /\ wire.code = (CASE tag = "Fr" -> 1 [] tag = "En" -> 2 [] tag = "Auto" -> 3
                              [] OTHER -> 4)
            /\ (wire.other # <<>>) <=> (wire.code = 4)
            /\ calc.phase = "returned" =>
                  /\ calc.result.error = Ok
                  /\ calc.result.transcript = <<calc.transcript>>

C38_ResampleNeverPanics ==
    calc.fn = "resample" =>
        /\ calc.phase # "panicked"
        /\ (calc.phase = "returned"
                /\ (calc.before.sample_rate_hz = 0 \/ calc.target_sample_rate_hz = 0)) =>
              /\ calc.result = internal_error(<<"sample rate must be greater than zero">>)
              /\ calc.samples = calc.before.samples
              /\ calc.sample_rate_hz = calc.before.sample_rate_hz
        /\ (calc.phase = "returned" /\ calc.resampled = "true") =>
              /\ Len(calc.taps) = Len(calc.samples)
              /\ \A i \in 1..Len(calc.taps) :
                    /\ calc.taps[i][1] \in 0..(Len(calc.before.samples) - 1)
                    /\ calc.taps[i][2] \in 0..(Len(calc.before.samples) - 1)

C38_Witness ==
    /\ calc.fn = "resample" /\ calc.phase = "returned" /\ calc.resampled = "true"
    /\ Len(calc.before.samples) = 2
    /\ calc.before.sample_rate_hz = 2 /\ calc.target_sample_rate_hz = 3
    /\ calc.taps = <<<<0, 1>>, <<0, 1>>, <<1, 1>>>>

(***************************************************************************)
(* Properties of the fallback aligner's text-split path.                   *)
(***************************************************************************)
\* no time of the words reached the integer maximum
Unsaturated(words) ==
    \A i \in 1..Len(words) : words[i].start_ms < U64Max /\ words[i].end_ms < U64Max

\* C40: the words split from the text of one segment without tokens are emitted
\* with non-decreasing start_ms and do not overlap: each word ends no later than
\* the next one starts, whenever no time saturated.
C40_TextWordsDoNotOverlap ==
    [][(AlignText /\ Unsaturated(calc'.words)) =>
          \A i \in 1..(Len(calc'.words) - 1) :
              /\ calc'.words[i].start_ms <= calc'.words[i + 1].start_ms
              /\ calc'.words[i].end_ms <= calc'.words[i + 1].start_ms]_vars

C40_Witness ==
    /\ calc.fn = "align" /\ calc.phase = "aligning"
    /\ calc.min_word_duration_ms = 2
    /\ calc.words = <<WordTiming(0, 2), WordTiming(2, 4), WordTiming(4, 6)>>

====
